---- MODULE Spec2Model ----
(***************************************************************************)
(* Chain-Pilot: the transaction policy evaluation engine.                  *)
(*                                                                         *)
(*   src/src/rules/rule_engine.py     Rule, RuleEngine                     *)
(*   src/src/api/routes.py            send_transaction                     *)
(*   src/src/api/rule_routes.py       rule administration, dry-run         *)
(*   src/src/execution/audit_logger.py  transactions and events tables     *)
(*   src/src/security/ai_controls.py  AISpendingController, approvals      *)
(*                                                                         *)
(* Amounts are fixed-point integers in units of 0.01 of the native token   *)
(* (0.5 ETH = 50).  The clock counts whole hours since the start of day 0. *)
(* The append-only tables rule_evaluations and events are never read back  *)
(* by the engine; the model keeps, in `result`, the rows each call wrote.  *)
(***************************************************************************)
EXTENDS Integers, Sequences, FiniteSets, TLC

VARIABLES
    rules,                \* rules table: id -> row
    rule_seq,             \* AUTOINCREMENT counter of the rules table
    transactions,         \* transactions table (audit_logger), in insert order
    current_wallet,       \* wallet_manager.current_wallet address, or NoWallet
    sandbox,              \* CHAINPILOT_SANDBOX environment flag
    now,                  \* datetime.utcnow(), in hours
    security_level,       \* AISpendingController.security_level
    ai_spending_history,  \* ai_spending_history table, in insert order
    approval_requests,    \* approval_requests table: id -> row
    callers,              \* concurrent approve/reject calls: caller -> frame
    db_writer,            \* connection holding SQLite's write lock, or NoCaller
    intended_off,         \* ids whose latest requested `enabled` value is False
    result                \* what the operation of the last step returned and wrote

vars == <<rules, rule_seq, transactions, current_wallet, sandbox, now,
          security_level, ai_spending_history, approval_requests,
          callers, db_writer, intended_off, result>>

ruleVars == <<rules, rule_seq, intended_off>>
aiVars == <<security_level, ai_spending_history, approval_requests>>
raceVars == <<callers, db_writer>>
envVars == <<current_wallet, sandbox>>

\* ------------------------------------------------------------------ bounds

MaxRules == 2
MaxTx == 1
MaxApprovals == 2
MaxHistory == 5
MaxTicks == 1
NumCallers == 2

\* ------------------------------------------------------------- sentinels

None == "None"
NoWallet == "NoWallet"
NoCaller == {}
NoResult == [op |-> "none"]

Get(d, key, default) == IF key \in DOMAIN d THEN d[key] ELSE default

\* ---------------------------------------------------------------- clock

HoursPerDay == 24

Day(t) == t \div HoursPerDay

HourOfDay(t) == t % HoursPerDay

\* ------------------------------------------------------------- addresses

\* str.lower() on the addresses the model uses.
Lower(addr) ==
    CASE addr = "0xAA" -> "0xaa"
      [] addr = "0xBB" -> "0xbb"
      [] OTHER -> addr

\* ------------------------------------------------------------ Rule.check

ALLOW == "allow"
DENY == "deny"
REQUIRE_APPROVAL == "require_approval"

RuleAction == {ALLOW, DENY, REQUIRE_APPROVAL}

RuleType == {"spending_limit", "address_whitelist", "address_blacklist",
             "time_restriction", "amount_threshold", "daily_transaction_count"}

\* Mutant of CheckSpendingLimit: the spending of the period is left out of the
\* total.
CheckSpendingLimitWithoutPeriod(rule, transaction, context) ==
    LET limit_amount == Get(rule.parameters, "amount", 0)
        tx_amount == Get(transaction, "value", 0)
    IN  IF tx_amount > limit_amount
        THEN [passed |-> FALSE,
              reason |-> <<"exceeds per-transaction limit", tx_amount, limit_amount>>]
        ELSE [passed |-> TRUE, reason |-> <<"Within per-transaction limit">>]

CheckSpendingLimit(rule, transaction, context) ==
    LET limit_type == Get(rule.parameters, "type", "daily")
        limit_amount == Get(rule.parameters, "amount", 0)
        tx_amount == Get(transaction, "value", 0)
        period_spending == Get(context, limit_type \o "_spending", 0)
        total_after_tx == period_spending + tx_amount
    IN  IF limit_type = "per_transaction"
        THEN IF tx_amount > limit_amount
             THEN [passed |-> FALSE,
                   reason |-> <<"exceeds per-transaction limit", tx_amount, limit_amount>>]
             ELSE [passed |-> TRUE, reason |-> <<"Within per-transaction limit">>]
        ELSE IF total_after_tx > limit_amount
             THEN [passed |-> FALSE,
                   reason |-> <<"Would exceed limit", limit_type, limit_amount,
                                period_spending, tx_amount>>]
             ELSE [passed |-> TRUE, reason |-> <<"Within limit", limit_type>>]

CheckWhitelist(rule, transaction) ==
    LET allowed_addresses == {Lower(a) : a \in Get(rule.parameters, "addresses", {})}
        to_address == Lower(Get(transaction, "to_address", ""))
    IN  IF to_address \in allowed_addresses
        THEN [passed |-> TRUE, reason |-> <<"Address is whitelisted">>]
        ELSE [passed |-> FALSE, reason |-> <<"not in whitelist", to_address>>]

CheckBlacklist(rule, transaction) ==
    LET blocked_addresses == {Lower(a) : a \in Get(rule.parameters, "addresses", {})}
        to_address == Lower(Get(transaction, "to_address", ""))
    IN  IF to_address \in blocked_addresses
        THEN [passed |-> FALSE, reason |-> <<"is blacklisted", to_address>>]
        ELSE [passed |-> TRUE, reason |-> <<"Address not blacklisted">>]

\* allowed_hours "HH:MM-HH:MM" is kept as <<start_hour, end_hour>>: the code
\* reads only the hour fields; the timezone parameter is not applied.
CheckTimeRestriction(rule, t) ==
    LET allowed_hours == Get(rule.parameters, "allowed_hours", <<0, 23>>)
        start_hour == allowed_hours[1]
        end_hour == allowed_hours[2]
        current_hour == HourOfDay(t)
    IN  IF start_hour <= current_hour /\ current_hour <= end_hour
        THEN [passed |-> TRUE, reason |-> <<"Within allowed time window">>]
        ELSE [passed |-> FALSE, reason |-> <<"Outside allowed time window", allowed_hours>>]

CheckAmountThreshold(rule, transaction) ==
    LET threshold == Get(rule.parameters, "threshold", 0)
        tx_amount == Get(transaction, "value", 0)
    IN  IF tx_amount >= threshold
        THEN [passed |-> FALSE, reason |-> <<"exceeds threshold", tx_amount, threshold>>]
        ELSE [passed |-> TRUE, reason |-> <<"Below threshold">>]

CheckDailyCount(rule, context) ==
    LET max_count == Get(rule.parameters, "max_count", 10)
        current_count == Get(context, "daily_transaction_count", 0)
    IN  IF current_count >= max_count
        THEN [passed |-> FALSE, reason |-> <<"Daily transaction limit reached", max_count>>]
        ELSE [passed |-> TRUE, reason |-> <<"Within daily transaction limit",
                                            current_count, max_count>>]

Check(rule, transaction, context, t) ==
    IF ~rule.enabled THEN [passed |-> TRUE, reason |-> <<"Rule disabled">>]
    ELSE CASE rule.rule_type = "spending_limit" -> CheckSpendingLimit(rule, transaction, context)
           [] rule.rule_type = "address_whitelist" -> CheckWhitelist(rule, transaction)
           [] rule.rule_type = "address_blacklist" -> CheckBlacklist(rule, transaction)
           [] rule.rule_type = "time_restriction" -> CheckTimeRestriction(rule, t)
           [] rule.rule_type = "amount_threshold" -> CheckAmountThreshold(rule, transaction)
           [] rule.rule_type = "daily_transaction_count" -> CheckDailyCount(rule, context)
           [] OTHER -> [passed |-> TRUE, reason |-> <<"Unknown rule type">>]

\* ------------------------------------------------------------ rule store

\* The Rule object built from the row with the given id.
RuleOf(store, id) ==
    [rule_id |-> id,
     rule_type |-> store[id].rule_type,
     rule_name |-> store[id].rule_name,
     parameters |-> store[id].parameters,
     action |-> store[id].action,
     enabled |-> store[id].enabled,
     priority |-> store[id].priority]

\* Mutant of FirstByPriority: rows of equal priority come out newest first.
FirstByPriorityNewestTie(store, ids) ==
    CHOOSE i \in ids :
        \A j \in ids : \/ store[i].priority > store[j].priority
                       \/ store[i].priority = store[j].priority /\ i >= j

\* First row of ORDER BY priority DESC among ids; rows of equal priority
\* come out in rowid order.
FirstByPriority(store, ids) ==
    CHOOSE i \in ids :
        \A j \in ids : \/ store[i].priority > store[j].priority
                       \/ store[i].priority = store[j].priority /\ i <= j

RECURSIVE OrderByPriority(_, _)
OrderByPriority(store, ids) ==
    IF ids = {} THEN <<>>
    ELSE LET i == FirstByPriority(store, ids)
         IN  <<i>> \o OrderByPriority(store, ids \ {i})

SelectRuleIds(store, enabled_only) ==
    {i \in DOMAIN store : ~enabled_only \/ store[i].enabled}

GetRules(store, enabled_only) ==
    LET ordered == OrderByPriority(store, SelectRuleIds(store, enabled_only))
    IN  [k \in 1..Len(ordered) |-> RuleOf(store, ordered[k])]

\* ------------------------------------------------------- context builder

\* transactions.timestamp is SQLite's CURRENT_TIMESTAMP ('YYYY-MM-DD HH:MM:SS')
\* and the cutoff is datetime.isoformat() ('YYYY-MM-DDTHH:MM:SS.ffffff'); the
\* query compares the two as text.  On equal dates ' ' sorts before 'T', so a
\* row satisfies timestamp >= cutoff exactly when its date is later than the
\* cutoff's date.
TimestampGeCutoff(timestamp, cutoff) == Day(timestamp) > Day(cutoff)

\* COALESCE(SUM(CAST(value AS REAL)), 0) over the selected rows.
RECURSIVE SumValues(_)
SumValues(rows) ==
    IF rows = <<>> THEN 0 ELSE Head(rows).value + SumValues(Tail(rows))

\* Mutant of GetPeriodSpending: every audit row the preceding call wrote is
\* counted as a spend of 1.00.
GetPeriodSpendingCountsAudit(txs, from_address, days, t) ==
    LET cutoff == t - days * HoursPerDay
        Keep(row) == /\ row.from_address = from_address
                     /\ TimestampGeCutoff(row.timestamp, cutoff)
                     /\ row.status \in {"confirmed", "pending"}
        audit == IF "wrote" \in DOMAIN result
                 THEN Len(result.wrote.rule_evaluations) ELSE 0
    IN  SumValues(SelectSeq(txs, Keep)) + 100 * audit

GetPeriodSpending(txs, from_address, days, t) ==
    LET cutoff == t - days * HoursPerDay
        Keep(row) == /\ row.from_address = from_address
                     /\ TimestampGeCutoff(row.timestamp, cutoff)
                     /\ row.status \in {"confirmed", "pending"}
    IN  SumValues(SelectSeq(txs, Keep))

GetTransactionCount(txs, from_address, days, t) ==
    LET cutoff == t - days * HoursPerDay
    IN  Cardinality({k \in 1..Len(txs) :
                        /\ txs[k].from_address = from_address
                        /\ TimestampGeCutoff(txs[k].timestamp, cutoff)})

BuildContext(txs, transaction, t) ==
    LET from_address == Get(transaction, "from_address", "")
    IN  [daily_spending |-> GetPeriodSpending(txs, from_address, 1, t),
         weekly_spending |-> GetPeriodSpending(txs, from_address, 7, t),
         monthly_spending |-> GetPeriodSpending(txs, from_address, 30, t),
         daily_transaction_count |-> GetTransactionCount(txs, from_address, 1, t)]

\* ----------------------------------------------------------- risk scorer

\* Mutant of CalculateRisk: the amount tiers include their lower bounds.
CalculateRiskInclusiveTiers(transaction, context, failed_rules) ==
    LET value == Get(transaction, "value", 0)
        amount_score == IF value >= 1000 THEN 30
                        ELSE IF value >= 100 THEN 15
                        ELSE IF value >= 10 THEN 5 ELSE 0
        daily_count == Get(context, "daily_transaction_count", 0)
        freq_score == IF daily_count > 50 THEN 20
                      ELSE IF daily_count > 20 THEN 10 ELSE 0
        risk_score == Len(failed_rules) * 25 + amount_score + freq_score
    IN  IF risk_score >= 75 THEN "critical"
        ELSE IF risk_score >= 50 THEN "high"
        ELSE IF risk_score >= 25 THEN "medium"
        ELSE "low"

CalculateRisk(transaction, context, failed_rules) ==
    LET value == Get(transaction, "value", 0)
        amount_score == IF value > 1000 THEN 30
                        ELSE IF value > 100 THEN 15
                        ELSE IF value > 10 THEN 5 ELSE 0
        daily_count == Get(context, "daily_transaction_count", 0)
        freq_score == IF daily_count > 50 THEN 20
                      ELSE IF daily_count > 20 THEN 10 ELSE 0
        risk_score == Len(failed_rules) * 25 + amount_score + freq_score
    IN  IF risk_score >= 75 THEN "critical"
        ELSE IF risk_score >= 50 THEN "high"
        ELSE IF risk_score >= 25 THEN "medium"
        ELSE "low"

\* ------------------------------------------------------ policy evaluator

\* Mutants of NextAction: the last failed rule decides; the first failed rule
\* (the one of highest priority) decides.
NextActionLastWins(action, rule_action) ==
    IF rule_action = DENY THEN DENY
    ELSE IF rule_action = REQUIRE_APPROVAL THEN REQUIRE_APPROVAL
    ELSE action

NextActionFirstWins(action, rule_action) ==
    IF action = ALLOW THEN rule_action ELSE action

\* "Determine action (most restrictive wins)": the running action after a
\* failed rule whose configured action is rule_action.
NextAction(action, rule_action) ==
    IF rule_action = DENY THEN DENY
    ELSE IF rule_action = REQUIRE_APPROVAL /\ action # DENY THEN REQUIRE_APPROVAL
    ELSE action

\* The row _log_evaluation inserts for one rule check.
EvaluationRow(transaction, rule, chk, t) ==
    [tx_hash |-> Get(transaction, "tx_hash", "pending"),
     rule_id |-> rule.rule_id,
     rule_name |-> rule.rule_name,
     passed |-> chk.passed,
     reason |-> chk.reason,
     timestamp |-> t]

\* Mutant of EvalStep: only the failed checks are written to the audit table.
EvalStepLogsFailuresOnly(acc, rule, transaction, context, t) ==
    LET chk == Check(rule, transaction, context, t)
    IN  IF chk.passed
        THEN acc
        ELSE [failed_rules |-> Append(acc.failed_rules, rule.rule_name),
              reasons |-> Append(acc.reasons, chk.reason),
              action |-> NextAction(acc.action, rule.action),
              logged |-> Append(acc.logged, EvaluationRow(transaction, rule, chk, t))]

\* One iteration of the loop over the fetched rules.
EvalStep(acc, rule, transaction, context, t) ==
    LET chk == Check(rule, transaction, context, t)
        logged == Append(acc.logged, EvaluationRow(transaction, rule, chk, t))
    IN  IF chk.passed
        THEN [acc EXCEPT !.logged = logged]
        ELSE [failed_rules |-> Append(acc.failed_rules, rule.rule_name),
              reasons |-> Append(acc.reasons, chk.reason),
              action |-> NextAction(acc.action, rule.action),
              logged |-> logged]

RECURSIVE EvalLoop(_, _, _, _, _, _)
EvalLoop(acc, rule_list, k, transaction, context, t) ==
    IF k > Len(rule_list) THEN acc
    ELSE EvalLoop(EvalStep(acc, rule_list[k], transaction, context, t),
                  rule_list, k + 1, transaction, context, t)

\* Mutant of Allowed: everything short of a deny counts as allowed.
AllowedUnlessDenied(action) == action # DENY

Allowed(action) == action = ALLOW

\* evaluate_transaction on an already fetched rule list and built context:
\* the verdict, and the rule_evaluations rows written on the way.
EvaluateRules(rule_list, transaction, context, t) ==
    LET start == [failed_rules |-> <<>>, reasons |-> <<>>, action |-> ALLOW, logged |-> <<>>]
        acc == EvalLoop(start, rule_list, 1, transaction, context, t)
    IN  [allowed |-> Allowed(acc.action),
         action |-> acc.action,
         risk_level |-> CalculateRisk(transaction, context, acc.failed_rules),
         failed_rules |-> acc.failed_rules,
         reasons |-> acc.reasons,
         rules_checked |-> Len(rule_list),
         rules_passed |-> Len(rule_list) - Len(acc.failed_rules),
         logged |-> acc.logged]

\* Rule.__init__ raises ValueError on a rule_type or action outside the enums,
\* so get_rules raises when a selected row carries one.
RowsConstructible(store, enabled_only) ==
    \A i \in SelectRuleIds(store, enabled_only) :
        store[i].rule_type \in RuleType /\ store[i].action \in RuleAction

\* Parameter values are integers; NonNumeric stands for a stored value that
\* float() and int() reject, such as the string 'abc'.  A well-formed
\* allowed_hours has two parts; any other number of parts fails to unpack.
NonNumeric == 0 - 1

\* Whether rule.check raises instead of returning (ValueError from float(),
\* int() or the unpacking of allowed_hours.split('-')).
CheckRaises(rule) ==
    /\ rule.enabled
    /\ CASE rule.rule_type = "spending_limit" ->
                Get(rule.parameters, "amount", 0) = NonNumeric
         [] rule.rule_type = "time_restriction" ->
                Len(Get(rule.parameters, "allowed_hours", <<0, 23>>)) # 2
         [] rule.rule_type = "amount_threshold" ->
                Get(rule.parameters, "threshold", 0) = NonNumeric
         [] rule.rule_type = "daily_transaction_count" ->
                Get(rule.parameters, "max_count", 10) = NonNumeric
         [] OTHER -> FALSE

\* The position in the fetched list of the first rule whose check raises, or
\* 0 when every check returns.
FirstRaising(rule_list) ==
    IF \E k \in 1..Len(rule_list) : CheckRaises(rule_list[k])
    THEN CHOOSE k \in 1..Len(rule_list) :
             /\ CheckRaises(rule_list[k])
             /\ \A j \in 1..(k - 1) : ~CheckRaises(rule_list[j])
    ELSE 0

\* Whether evaluate_transaction raises: in get_rules, or in a rule's check.
EvaluationRaises(store) ==
    \/ ~RowsConstructible(store, TRUE)
    \/ FirstRaising(GetRules(store, TRUE)) > 0

\* The rules the loop of evaluate_transaction gets through: all the enabled
\* rules, or those before the one whose check raises, or none when get_rules
\* raises.
RulesReached(store) ==
    IF ~RowsConstructible(store, TRUE) THEN <<>>
    ELSE IF FirstRaising(GetRules(store, TRUE)) > 0
    THEN SubSeq(GetRules(store, TRUE), 1, FirstRaising(GetRules(store, TRUE)) - 1)
    ELSE GetRules(store, TRUE)

\* evaluate_transaction: the verdict when no exception is raised, and in
\* `logged` the audit rows written in either case.
EvaluateTransaction(store, txs, transaction, t) ==
    EvaluateRules(RulesReached(store), transaction, BuildContext(txs, transaction, t), t)

\* RuleEngine.evaluate_transaction called directly.  The result keeps the
\* clock reading of the call and, in `prior`, the verdict of the call before
\* it when that call evaluated the same transaction and only the clock has
\* moved since (<<>> otherwise).
EvaluateCall(transaction) ==
    LET verdict == EvaluateTransaction(rules, transactions, transaction, now)
        prior == IF /\ result.op = "evaluate_transaction"
                    /\ ~result.raised
                    /\ result.transaction = transaction
                 THEN <<[at |-> result.at, action |-> result.returned.action,
                         risk_level |-> result.returned.risk_level]>>
                 ELSE <<>>
        wrote == [rule_evaluations |-> verdict.logged]
    IN  /\ result' =
              IF EvaluationRaises(rules)
              THEN [op |-> "evaluate_transaction", transaction |-> transaction,
                    at |-> now, raised |-> TRUE, wrote |-> wrote, prior |-> prior]
              ELSE [op |-> "evaluate_transaction", transaction |-> transaction,
                    at |-> now, raised |-> FALSE,
                    returned |-> [f \in DOMAIN verdict \ {"logged"} |-> verdict[f]],
                    wrote |-> wrote, prior |-> prior]
        /\ UNCHANGED <<ruleVars, transactions, now, envVars, aiVars, raceVars>>

\* ------------------------------------------------------ rule store: CRUD

RuleRow(inp, t) ==
    [rule_type |-> inp.rule_type,
     rule_name |-> inp.rule_name,
     parameters |-> inp.parameters,
     action |-> inp.action,
     enabled |-> inp.enabled,
     priority |-> inp.priority,
     created_at |-> t,
     updated_at |-> t]

CreateRule(inp) ==
    /\ rule_seq < MaxRules
    /\ LET rule_id == rule_seq + 1
       IN  /\ rules' = [i \in DOMAIN rules \cup {rule_id} |->
                           IF i = rule_id THEN RuleRow(inp, now) ELSE rules[i]]
           /\ rule_seq' = rule_id
           /\ intended_off' = IF inp.enabled THEN intended_off
                              ELSE intended_off \cup {rule_id}
           /\ result' = [op |-> "create_rule", rule_id |-> rule_id]
    /\ UNCHANGED <<transactions, now, envVars, aiVars, raceVars>>

\* Mutant of UpdatedRow: a priority that is not supplied is reset to the
\* default 0.
UpdatedRowResetsPriority(row, upd, t) ==
    [row EXCEPT !.enabled = Get(upd, "enabled", @),
                !.parameters = Get(upd, "parameters", @),
                !.priority = Get(upd, "priority", 0),
                !.updated_at = t]

\* Mutant of UpdatedRow: "1 if enabled is not None else 0" stores enabled = 1
\* whenever the field is supplied.
UpdatedRowAlwaysEnabled(row, upd, t) ==
    [row EXCEPT !.enabled = IF "enabled" \in DOMAIN upd THEN TRUE ELSE @,
                !.parameters = Get(upd, "parameters", @),
                !.priority = Get(upd, "priority", @),
                !.updated_at = t]

\* The row after UPDATE rules SET ... : upd holds the supplied fields only.
UpdatedRow(row, upd, t) ==
    [row EXCEPT !.enabled = Get(upd, "enabled", @),
                !.parameters = Get(upd, "parameters", @),
                !.priority = Get(upd, "priority", @),
                !.updated_at = t]

UpdateRule(rule_id, upd) ==
    LET updated == DOMAIN upd # {} /\ rule_id \in DOMAIN rules
    IN  /\ rules' = IF updated
                    THEN [rules EXCEPT ![rule_id] = UpdatedRow(@, upd, now)]
                    ELSE rules
        /\ intended_off' = IF "enabled" \in DOMAIN upd /\ rule_id \in DOMAIN rules
                           THEN IF upd.enabled THEN intended_off \ {rule_id}
                                ELSE intended_off \cup {rule_id}
                           ELSE intended_off
        /\ result' = [op |-> "update_rule", rule_id |-> rule_id, returned |-> updated]
        /\ UNCHANGED <<rule_seq, transactions, now, envVars, aiVars, raceVars>>

\* Mutant of DeleteRule: the call reports the deletion and keeps the row.
DeleteRuleKeepsRow(rule_id) ==
    LET deleted == rule_id \in DOMAIN rules
    IN  /\ rules' = rules
        /\ intended_off' = intended_off \ {rule_id}
        /\ result' = [op |-> "delete_rule", rule_id |-> rule_id, returned |-> deleted]
        /\ UNCHANGED <<rule_seq, transactions, now, envVars, aiVars, raceVars>>

DeleteRule(rule_id) ==
    LET deleted == rule_id \in DOMAIN rules
    IN  /\ rules' = [i \in DOMAIN rules \ {rule_id} |-> rules[i]]
        /\ intended_off' = intended_off \ {rule_id}
        /\ result' = [op |-> "delete_rule", rule_id |-> rule_id, returned |-> deleted]
        /\ UNCHANGED <<rule_seq, transactions, now, envVars, aiVars, raceVars>>

\* GET /rules: the listing, or HTTP 500 when get_rules raises.
ListRules(enabled_only) ==
    /\ result' = IF RowsConstructible(rules, enabled_only)
                 THEN [op |-> "get_rules", enabled_only |-> enabled_only, http |-> 200,
                       returned |-> GetRules(rules, enabled_only)]
                 ELSE [op |-> "get_rules", enabled_only |-> enabled_only, http |-> 500]
    /\ UNCHANGED <<ruleVars, transactions, now, envVars, aiVars, raceVars>>

\* ------------------------------------------------------------ API routes

\* Web3.to_checksum_address on the addresses the model uses.
ToChecksumAddress(addr) ==
    CASE Lower(addr) = "0xaa" -> "0xAA"
      [] Lower(addr) = "0xbb" -> "0xBB"
      [] OTHER -> addr

NothingWritten == [rule_evaluations |-> <<>>, events |-> <<>>,
                   signed |-> FALSE, broadcast |-> FALSE]

\* What POST /rules/evaluate, the dry run, answers and writes.
\* req.from_address may be absent.
EvaluateResponse(req) ==
    LET from_given == Get(req, "from_address", "") # ""
        from_address == IF from_given THEN req.from_address ELSE current_wallet
        transaction == [from_address |-> from_address,
                        to_address |-> req.to_address,
                        value |-> req.value]
        verdict == EvaluateTransaction(rules, transactions, transaction, now)
    IN  IF ~from_given /\ current_wallet = NoWallet
        THEN [op |-> "evaluate", request |-> req, http |-> 400,
              wrote |-> NothingWritten]
        ELSE IF EvaluationRaises(rules)
        THEN [op |-> "evaluate", request |-> req, http |-> 500,
              wrote |-> [NothingWritten EXCEPT !.rule_evaluations = verdict.logged]]
        ELSE [op |-> "evaluate", request |-> req, http |-> 200,
              transaction |-> transaction,
              body |-> [f \in DOMAIN verdict \ {"logged"} |-> verdict[f]],
              wrote |-> [NothingWritten EXCEPT !.rule_evaluations = verdict.logged]]

\* Mutant of EvaluateRoute: the evaluated transaction is also stored in the
\* transactions table, as pending.
EvaluateRouteRecords(req) ==
    /\ result' = EvaluateResponse(req)
    /\ transactions' =
          Append(transactions,
                 [tx_hash |-> Len(transactions) + 1, from_address |-> current_wallet,
                  to_address |-> req.to_address, value |-> req.value,
                  status |-> "pending", timestamp |-> now])
    /\ UNCHANGED <<ruleVars, now, envVars, aiVars, raceVars>>

\* POST /rules/evaluate.
EvaluateRoute(req) ==
    /\ result' = EvaluateResponse(req)
    /\ UNCHANGED <<ruleVars, transactions, now, envVars, aiVars, raceVars>>

\* AuditLogger.log_transaction: update the row with this tx_hash, or insert.
LogTransaction(txs, row) ==
    IF \E k \in 1..Len(txs) : txs[k].tx_hash = row.tx_hash
    THEN [k \in 1..Len(txs) |->
             IF txs[k].tx_hash = row.tx_hash
             THEN [txs[k] EXCEPT !.status = row.status] ELSE txs[k]]
    ELSE Append(txs, row)

\* Mutant of EnforceRules: the flag is read the wrong way round.
EnforceRulesInverted(skip_rules) == skip_rules

\* "if not skip_rules": whether send_transaction evaluates the rules.
EnforceRules(skip_rules) == ~skip_rules

\* "if not rule_result['allowed']": whether the verdict stops the transfer.
RulesBlock(verdict) == ~verdict.allowed

\* The transactions row send_transaction records.
SentRow(req, tx_hash, status, t) ==
    [tx_hash |-> tx_hash, from_address |-> current_wallet,
     to_address |-> ToChecksumAddress(req.to_address), value |-> req.value,
     status |-> status, timestamp |-> t]

\* The audit rows of a verdict, when the rules were evaluated.
LoggedIf(checked, verdict) == IF checked THEN verdict.logged ELSE <<>>

\* The path of POST /transaction/send after the rule check, given its verdict:
\* the response, the audit rows written and the transactions row recorded
\* (<<>> when none).  checked is whether the rules were evaluated,
\* constructible whether the evaluation returned (no rule row or rule check
\* raised), chain the outcome
\* of the real-mode build/sign/broadcast calls.
SendResponse(req, verdict, checked, constructible, tx_hash, chain) ==
    IF checked /\ ~constructible
    THEN [http |-> 500, body |-> [status |-> "error"], new_rows |-> <<>>,
          wrote |-> [NothingWritten EXCEPT !.rule_evaluations = LoggedIf(checked, verdict)]]
    ELSE IF checked /\ RulesBlock(verdict)
    THEN [http |-> 200,
          body |-> [status |-> "blocked", action |-> verdict.action,
                    risk_level |-> verdict.risk_level,
                    failed_rules |-> verdict.failed_rules,
                    reasons |-> verdict.reasons,
                    rules_checked |-> verdict.rules_checked],
          new_rows |-> <<>>,
          wrote |-> [NothingWritten EXCEPT !.rule_evaluations = LoggedIf(checked, verdict),
                                           !.events = <<"TX_BLOCKED">>]]
    ELSE IF checked /\ verdict.action = REQUIRE_APPROVAL
    THEN [http |-> 200,
          body |-> [status |-> "requires_approval", action |-> verdict.action,
                    risk_level |-> verdict.risk_level,
                    failed_rules |-> verdict.failed_rules,
                    reasons |-> verdict.reasons],
          new_rows |-> <<>>,
          wrote |-> [NothingWritten EXCEPT !.rule_evaluations = LoggedIf(checked, verdict),
                                           !.events = <<"TX_REQUIRES_APPROVAL">>]]
    ELSE IF sandbox
    THEN [http |-> 200,
          body |-> [status |-> "confirmed", tx_hash |-> tx_hash, sandbox_mode |-> TRUE],
          new_rows |-> <<SentRow(req, tx_hash, "confirmed", now)>>,
          wrote |-> [NothingWritten EXCEPT !.rule_evaluations = LoggedIf(checked, verdict),
                                           !.signed = TRUE]]
    ELSE IF chain = "build_failed"
    THEN [http |-> 500, body |-> [status |-> "error"], new_rows |-> <<>>,
          wrote |-> [NothingWritten EXCEPT !.rule_evaluations = LoggedIf(checked, verdict)]]
    ELSE IF chain = "broadcast_failed"
    THEN [http |-> 500, body |-> [status |-> "error"], new_rows |-> <<>>,
          wrote |-> [NothingWritten EXCEPT !.rule_evaluations = LoggedIf(checked, verdict),
                                           !.signed = TRUE]]
    ELSE [http |-> 200,
          body |-> [status |-> "SUBMITTED", tx_hash |-> tx_hash],
          new_rows |-> <<SentRow(req, tx_hash, "pending", now)>>,
          wrote |-> [rule_evaluations |-> LoggedIf(checked, verdict), events |-> <<"TX_SENT">>,
                     signed |-> TRUE, broadcast |-> TRUE]]

\* What POST /transaction/send does for a loaded wallet.
SendOutcome(req, skip_rules, chain) ==
    SendResponse(req,
                 EvaluateTransaction(rules, transactions,
                                     [from_address |-> current_wallet,
                                      to_address |-> ToChecksumAddress(req.to_address),
                                      value |-> req.value], now),
                 EnforceRules(skip_rules),
                 ~EvaluationRaises(rules),
                 Len(transactions) + 1,
                 chain)

ChainOutcomes == {"ok", "build_failed", "broadcast_failed"}

\* The state after the handler returned out.
Sent(req, skip_rules, out) ==
    /\ out.new_rows # <<>> => Len(transactions) < MaxTx
    /\ transactions' = IF out.new_rows = <<>> THEN transactions
                       ELSE LogTransaction(transactions, out.new_rows[1])
    /\ result' = [op |-> "send_transaction", request |-> req,
                  skip_rules |-> skip_rules, http |-> out.http,
                  body |-> out.body, wrote |-> out.wrote]

SendTransaction(req, skip_rules, chain) ==
    /\ chain \in ChainOutcomes
    /\ sandbox => chain = "ok"
    /\ IF current_wallet = NoWallet
       THEN /\ result' = [op |-> "send_transaction", request |-> req,
                          skip_rules |-> skip_rules, http |-> 400,
                          body |-> [status |-> "error"], wrote |-> NothingWritten]
            /\ chain = "ok"
            /\ UNCHANGED transactions
       ELSE Sent(req, skip_rules, SendOutcome(req, skip_rules, chain))
    /\ UNCHANGED <<ruleVars, now, envVars, aiVars, raceVars>>

\* ------------------------------------- POST /transaction/send, in flight

\* In real mode the handler yields once, at "await broadcast_raw_transaction",
\* between the rule evaluation and log_transaction; other requests run there.
\* callers[c] is the frame of request c: idle, broadcasting, or returned.
SendIdle == [pc |-> "idle"]

\* The frame of a request that has returned.  seen is the number of
\* transactions rows stored when its rules were evaluated; overlapped tells
\* whether another request recorded a row between that and its own recording.
ReturnedFrame(req, out, seen, overlapped) ==
    [pc |-> "returned", request |-> req, http |-> out.http,
     recorded |-> out.new_rows # <<>>, seen |-> seen, overlapped |-> overlapped]

\* The handler up to the await: wallet, rule evaluation, build and sign.  It
\* returns here when the rules stop the transfer or the build fails.
BeginSend(c, req, chain) ==
    /\ callers[c].pc = "idle"
    /\ current_wallet # NoWallet
    /\ ~sandbox
    /\ chain \in {"ok", "build_failed"}
    /\ LET out == SendOutcome(req, FALSE, chain)
       IN  IF out.new_rows = <<>>
           THEN /\ callers' = [callers EXCEPT
                                 ![c] = ReturnedFrame(req, out, Len(transactions), FALSE)]
                /\ result' = [op |-> "send_transaction", request |-> req,
                              skip_rules |-> FALSE, http |-> out.http,
                              body |-> out.body, wrote |-> out.wrote]
           ELSE /\ callers' = [callers EXCEPT
                                 ![c] = [pc |-> "broadcasting", request |-> req,
                                         verdict |-> EvaluateTransaction(
                                             rules, transactions,
                                             [from_address |-> current_wallet,
                                              to_address |-> ToChecksumAddress(req.to_address),
                                              value |-> req.value], now),
                                         seen |-> Len(transactions)]]
                /\ result' = [op |-> "send_transaction_await", request |-> req]
    /\ UNCHANGED <<ruleVars, transactions, now, envVars, aiVars, db_writer>>

\* The handler from the await on: the broadcast ends, the row is recorded.
FinishSend(c, chain) ==
    /\ callers[c].pc = "broadcasting"
    /\ chain \in {"ok", "broadcast_failed"}
    /\ LET out == SendResponse(callers[c].request, callers[c].verdict, TRUE, TRUE,
                               Len(transactions) + 1, chain)
       IN  /\ transactions' = IF out.new_rows = <<>> THEN transactions
                              ELSE LogTransaction(transactions, out.new_rows[1])
           /\ callers' = [callers EXCEPT
                            ![c] = ReturnedFrame(callers[c].request, out, callers[c].seen,
                                                 Len(transactions) # callers[c].seen)]
           /\ result' = [op |-> "send_transaction", request |-> callers[c].request,
                         skip_rules |-> FALSE, http |-> out.http,
                         body |-> out.body, wrote |-> out.wrote]
    /\ UNCHANGED <<ruleVars, now, envVars, aiVars, db_writer>>

\* ---------------------------------------------------------------- clock

\* The clock advances by d hours, at most MaxTicks times.
Tick(d) ==
    /\ (now + d) \div d <= MaxTicks
    /\ now' = now + d
    /\ result' = NoResult
    /\ UNCHANGED <<ruleVars, transactions, envVars, aiVars, raceVars>>

\* Time passes between two calls: d hours, within MaxTicks days after day 0.
\* What the last call returned stays as it was.
Elapse(d) ==
    /\ (now + d) \div HoursPerDay <= MaxTicks
    /\ now' = now + d
    /\ UNCHANGED <<ruleVars, transactions, envVars, aiVars, raceVars, result>>

\* ------------------------------------------------- rule engine: the model

\* The rules the model creates: the per-transaction cap and the approval
\* threshold of tests/phase_tests/test_phase3.py, a daily cap, and a whitelist
\* whose configured action is allow.
PerTransactionCap ==
    [rule_type |-> "spending_limit", rule_name |-> "Max per transaction",
     parameters |-> [type |-> "per_transaction", amount |-> 50],
     action |-> DENY, priority |-> 0]

LargeTransactionApproval ==
    [rule_type |-> "amount_threshold", rule_name |-> "Large Transaction Approval",
     parameters |-> [threshold |-> 30],
     action |-> REQUIRE_APPROVAL, priority |-> 10]

DailyCap ==
    [rule_type |-> "spending_limit", rule_name |-> "Daily limit",
     parameters |-> [type |-> "daily", amount |-> 100],
     action |-> DENY, priority |-> 20]

TrustedRecipients ==
    [rule_type |-> "address_whitelist", rule_name |-> "Trusted recipients",
     parameters |-> [addresses |-> {"0xAA"}],
     action |-> ALLOW, priority |-> 5]

BusinessHours ==
    [rule_type |-> "time_restriction", rule_name |-> "Business hours",
     parameters |-> [allowed_hours |-> <<9, 17>>],
     action |-> DENY, priority |-> 15]

WithEnabled(fixtures, flags) ==
    {[rule_type |-> f.rule_type, rule_name |-> f.rule_name, parameters |-> f.parameters,
      action |-> f.action, enabled |-> e, priority |-> f.priority] :
        f \in fixtures, e \in flags}

RuleInputs ==
    WithEnabled({PerTransactionCap, LargeTransactionApproval, DailyCap, TrustedRecipients},
                BOOLEAN)

SendRuleInputs ==
    WithEnabled({PerTransactionCap, LargeTransactionApproval, DailyCap}, {TRUE})

RuleUpdates == {<<>>, [priority |-> 30]} \cup {[enabled |-> e] : e \in BOOLEAN}

RuleIds == 1..(MaxRules + 1)

SendRequests ==
    {[to_address |-> "0xaa", value |-> 10],
     [to_address |-> "0xbb", value |-> 40],
     [to_address |-> "0xaa", value |-> 100]}

EvaluateRequests == SendRequests

\* Transaction histories the database file may hold when the engine starts.
InitialHistories ==
    {<<>>,
     <<[tx_hash |-> 1, from_address |-> "0xAA", to_address |-> "0xBB", value |-> 60,
        status |-> "confirmed", timestamp |-> 0]>>}

InitCommon ==
    /\ rules = <<>>
    /\ rule_seq = 0
    /\ current_wallet = "0xAA"
    /\ now = 0
    /\ security_level = "strict"
    /\ ai_spending_history = <<>>
    /\ approval_requests = <<>>
    /\ callers = <<>>
    /\ db_writer = NoCaller
    /\ intended_off = {}
    /\ result = NoResult

\* Rule administration and dry-run evaluation.
Init ==
    /\ InitCommon
    /\ transactions \in InitialHistories
    /\ sandbox = TRUE

Next ==
    \/ \E inp \in RuleInputs : CreateRule(inp)
    \/ \E id \in RuleIds, upd \in RuleUpdates : UpdateRule(id, upd)
    \/ \E id \in RuleIds : DeleteRule(id)
    \/ \E req \in EvaluateRequests : EvaluateRoute(req)

Spec == Init /\ [][Next]_vars

\* Rule creation and deletion with POST /transaction/send.
InitSend ==
    /\ InitCommon
    /\ transactions = <<>>
    /\ sandbox \in BOOLEAN

NextSend ==
    \/ \E inp \in SendRuleInputs : CreateRule(inp)
    \/ \E id \in RuleIds : DeleteRule(id)
    \/ \E req \in SendRequests, skip \in BOOLEAN, chain \in ChainOutcomes :
          SendTransaction(req, skip, chain)

SpecSend == InitSend /\ [][NextSend]_vars

\* Requests to POST /transaction/send in flight together, in real mode, with
\* the daily cap stored and enabled.
InitInFlight ==
    /\ rules = <<RuleRow(DailyCap @@ [enabled |-> TRUE], 0)>>
    /\ rule_seq = 1
    /\ intended_off = {}
    /\ transactions = <<>>
    /\ current_wallet = "0xAA"
    /\ sandbox = FALSE
    /\ now = 0
    /\ security_level = "strict"
    /\ ai_spending_history = <<>>
    /\ approval_requests = <<>>
    /\ callers = [c \in 1..NumCallers |-> SendIdle]
    /\ db_writer = NoCaller
    /\ result = NoResult

NextInFlight ==
    \/ \E c \in 1..NumCallers, req \in SendRequests, chain \in ChainOutcomes :
          BeginSend(c, req, chain)
    \/ \E c \in 1..NumCallers, chain \in ChainOutcomes : FinishSend(c, chain)

SpecInFlight == InitInFlight /\ [][NextInFlight]_vars

\* The rule stores create_rule builds at hour 0 from the given inputs.
StoresOf(inputs) ==
    UNION {[1..n -> {RuleRow(inp, 0) : inp \in inputs}] : n \in 0..MaxRules}

ClockRuleInputs == WithEnabled({BusinessHours, DailyCap}, {TRUE})

EngineTransactions ==
    {[from_address |-> "0xAA", to_address |-> "0xBB", value |-> v] : v \in {10, 100}}

ElapseSteps == {9, 15}

\* Repeated evaluations while the clock runs, over a stored rule set and a
\* stored history that nothing changes.
InitClock ==
    /\ rules \in StoresOf(ClockRuleInputs)
    /\ rule_seq = Len(rules)
    /\ intended_off = {}
    /\ transactions \in InitialHistories
    /\ current_wallet = "0xAA"
    /\ sandbox = TRUE
    /\ now = 0
    /\ security_level = "strict"
    /\ ai_spending_history = <<>>
    /\ approval_requests = <<>>
    /\ callers = <<>>
    /\ db_writer = NoCaller
    /\ result = NoResult

NextClock ==
    \/ \E transaction \in EngineTransactions : EvaluateCall(transaction)
    \/ \E d \in ElapseSteps : Elapse(d)

SpecClock == InitClock /\ [][NextClock]_vars

\* Requests to POST /transaction/send under the daily cap while the clock runs.
DailySteps == {15}

InitDaily == InitInFlight

NextDaily ==
    \/ \E c \in 1..NumCallers, req \in SendRequests : BeginSend(c, req, "ok")
    \/ \E c \in 1..NumCallers : FinishSend(c, "ok")
    \/ \E d \in DailySteps : Elapse(d)

SpecDaily == InitDaily /\ [][NextDaily]_vars

\* The risk scorer on its own: values on both sides of the amount tiers
\* 0.1, 1 and 10, daily counts on both sides of 20 and 50, and up to MaxRules
\* failed rules.
RiskValues == {0, 10, 11, 100, 101, 1000, 1001}

RiskCounts == {0, 20, 21, 50, 51}

RiskFailures == {[k \in 1..n |-> "Daily limit"] : n \in 0..MaxRules}

RiskInputs ==
    {[op |-> "risk_input",
      transaction |-> [from_address |-> "0xAA", to_address |-> "0xBB", value |-> v],
      context |-> [daily_spending |-> 0, weekly_spending |-> 0, monthly_spending |-> 0,
                   daily_transaction_count |-> n],
      failed_rules |-> f] : v \in RiskValues, n \in RiskCounts, f \in RiskFailures}

\* _calculate_risk is called with the input at hand.
CalculateRiskCall ==
    /\ result.op = "risk_input"
    /\ result' = [op |-> "calculate_risk", transaction |-> result.transaction,
                  context |-> result.context, failed_rules |-> result.failed_rules,
                  returned |-> CalculateRisk(result.transaction, result.context,
                                             result.failed_rules)]
    /\ UNCHANGED <<ruleVars, transactions, now, envVars, aiVars, raceVars>>

InitRisk ==
    /\ rules = <<>>
    /\ rule_seq = 0
    /\ intended_off = {}
    /\ transactions = <<>>
    /\ current_wallet = "0xAA"
    /\ sandbox = TRUE
    /\ now = 0
    /\ security_level = "strict"
    /\ ai_spending_history = <<>>
    /\ approval_requests = <<>>
    /\ callers = <<>>
    /\ db_writer = NoCaller
    /\ result \in RiskInputs

NextRisk == CalculateRiskCall

SpecRisk == InitRisk /\ [][NextRisk]_vars

\* Rules that POST /rules accepts although no check can use them: a kind and
\* an action outside the enums, an amount that is not a number ('abc'), and
\* an allowed_hours that splits into three parts ('nine-to-five').
UnknownKind ==
    [rule_type |-> "bogus_kind", rule_name |-> "Unknown kind",
     parameters |-> <<>>, action |-> DENY, priority |-> 10]

UnknownAction ==
    [rule_type |-> "amount_threshold", rule_name |-> "Unknown action",
     parameters |-> [threshold |-> 30], action |-> "bogus_action", priority |-> 10]

MalformedAmount ==
    [rule_type |-> "spending_limit", rule_name |-> "Malformed amount",
     parameters |-> [type |-> "daily", amount |-> NonNumeric],
     action |-> DENY, priority |-> 10]

MalformedHours ==
    [rule_type |-> "time_restriction", rule_name |-> "Malformed hours",
     parameters |-> [allowed_hours |-> <<9, 2, 5>>],
     action |-> DENY, priority |-> 10]

InvalidRuleInputs ==
    WithEnabled({UnknownKind, UnknownAction, MalformedAmount, MalformedHours,
                 DailyCap, PerTransactionCap}, {TRUE})

\* Rule administration with inputs of any shape, and the dry run.
InitInvalid ==
    /\ InitCommon
    /\ transactions = <<>>
    /\ sandbox = TRUE

NextInvalid ==
    \/ \E inp \in InvalidRuleInputs : CreateRule(inp)
    \/ \E id \in RuleIds : DeleteRule(id)
    \/ \E req \in EvaluateRequests : EvaluateRoute(req)

SpecInvalid == InitInvalid /\ [][NextInvalid]_vars

\* Rules of equal and of different priority, and the updates that make and
\* break ties.
ListRuleInputs == WithEnabled({PerTransactionCap, LargeTransactionApproval}, {TRUE})

ListRuleUpdates == {[priority |-> 10], [enabled |-> FALSE]}

\* Rule administration and GET /rules.
InitList ==
    /\ InitCommon
    /\ transactions = <<>>
    /\ sandbox = TRUE

NextList ==
    \/ \E inp \in ListRuleInputs : CreateRule(inp)
    \/ \E id \in RuleIds, upd \in ListRuleUpdates : UpdateRule(id, upd)
    \/ \E id \in RuleIds : DeleteRule(id)
    \/ \E enabled_only \in BOOLEAN : ListRules(enabled_only)

SpecList == InitList /\ [][NextList]_vars

\* The field sets PUT /rules/{id} may carry: none, each field alone (an empty
\* parameters object is a supplied field), and two together.
UpdateInputs ==
    {<<>>, [priority |-> 30], [enabled |-> FALSE], [enabled |-> TRUE],
     [parameters |-> <<>>], [parameters |-> [threshold |-> 60], priority |-> 30]}

\* Updates of two rules stored a day before.
InitUpdate ==
    /\ rules = <<RuleRow(PerTransactionCap @@ [enabled |-> TRUE], 0),
                 RuleRow(LargeTransactionApproval @@ [enabled |-> TRUE], 0)>>
    /\ rule_seq = 2
    /\ intended_off = {}
    /\ transactions = <<>>
    /\ current_wallet = "0xAA"
    /\ sandbox = TRUE
    /\ now = HoursPerDay
    /\ security_level = "strict"
    /\ ai_spending_history = <<>>
    /\ approval_requests = <<>>
    /\ callers = <<>>
    /\ db_writer = NoCaller
    /\ result = NoResult

NextUpdate ==
    \E id \in RuleIds, upd \in UpdateInputs : UpdateRule(id, upd)

SpecUpdate == InitUpdate /\ [][NextUpdate]_vars

\* ================================================ AI spending controller

\* float('inf') and the finite thresholds, in units of 0.01.
Infinite == [finite |-> FALSE, v |-> 0]

Finite(v) == [finite |-> TRUE, v |-> v]

\* x > limit on floats, one of which may be inf.
Exceeds(x, limit) == limit.finite /\ x > limit.v

SecurityLevels == {"unrestricted", "moderate", "strict", "lockdown"}

GetThresholds(level) ==
    CASE level = "unrestricted" ->
            [max_single_tx |-> Infinite, hourly_limit |-> Infinite,
             daily_limit |-> Infinite, approval_threshold |-> Infinite,
             max_tx_per_hour |-> 1000, require_approval |-> FALSE]
      [] level = "moderate" ->
            [max_single_tx |-> Finite(100), hourly_limit |-> Finite(500),
             daily_limit |-> Finite(2000), approval_threshold |-> Finite(50),
             max_tx_per_hour |-> 50, require_approval |-> FALSE]
      [] level = "strict" ->
            [max_single_tx |-> Finite(50), hourly_limit |-> Finite(200),
             daily_limit |-> Finite(1000), approval_threshold |-> Finite(10),
             max_tx_per_hour |-> 20, require_approval |-> FALSE]
      [] level = "lockdown" ->
            [max_single_tx |-> Finite(10), hourly_limit |-> Finite(50),
             daily_limit |-> Finite(200), approval_threshold |-> Finite(1),
             max_tx_per_hour |-> 5, require_approval |-> TRUE]

RECURSIVE SumAmounts(_)
SumAmounts(rows) ==
    IF rows = <<>> THEN 0 ELSE Head(rows).amount + SumAmounts(Tail(rows))

\* Mutant of GetSpending: only the records of sender 0xAA are summed.
GetSpendingOfOneSender(history, hours, t) ==
    LET cutoff == t - hours
        Keep(row) == /\ row.timestamp > cutoff
                     /\ row.approved
                     /\ row.from_address = "0xAA"
    IN  SumAmounts(SelectSeq(history, Keep))

\* SELECT SUM(amount) ... WHERE timestamp > cutoff AND approved = 1.
GetSpending(history, hours, t) ==
    LET cutoff == t - hours
        Keep(row) == row.timestamp > cutoff /\ row.approved
    IN  SumAmounts(SelectSeq(history, Keep))

\* SELECT COUNT(*) ... WHERE timestamp > cutoff.
GetTransactionCountAI(history, hours, t) ==
    LET cutoff == t - hours
    IN  Cardinality({k \in 1..Len(history) : history[k].timestamp > cutoff})

ApprovalTTL == 24

PENDING == "pending"
APPROVED == "approved"
REJECTED == "rejected"
EXPIRED == "expired"

\* Mutant of ApprovalRow: the request expires the moment it is created.
ApprovalRowExpiresAtOnce(req, reason, t) ==
    [timestamp |-> t,
     expires_at |-> t,
     from_address |-> req.from_address,
     to_address |-> req.to_address,
     amount |-> req.amount,
     currency |-> req.currency,
     reason |-> reason,
     status |-> PENDING,
     approved_at |-> <<>>,
     approved_by |-> <<>>]

\* The row _create_approval_request inserts.  NULL columns are empty tuples.
ApprovalRow(req, reason, t) ==
    [timestamp |-> t,
     expires_at |-> t + ApprovalTTL,
     from_address |-> req.from_address,
     to_address |-> req.to_address,
     amount |-> req.amount,
     currency |-> req.currency,
     reason |-> reason,
     status |-> PENDING,
     approved_at |-> <<>>,
     approved_by |-> <<>>]

\* uuid.uuid4(): an id no stored request has.
NewApprovalId(table) == Cardinality(DOMAIN table) + 1

\* Mutant of GateDecision: an approved request for the amount lets it pass.
GateDecisionUnlockedByApproval(amount, hourly_spent, daily_spent, hourly_tx_count, thresholds) ==
    IF \E id \in DOMAIN approval_requests :
          /\ approval_requests[id].status = "approved"
          /\ approval_requests[id].amount = amount
    THEN "allowed"
    ELSE IF Exceeds(amount, thresholds.max_single_tx) THEN "exceeds_single_tx_limit"
    ELSE IF Exceeds(hourly_spent + amount, thresholds.hourly_limit) THEN "exceeds_hourly_limit"
    ELSE IF Exceeds(daily_spent + amount, thresholds.daily_limit) THEN "exceeds_daily_limit"
    ELSE IF hourly_tx_count >= thresholds.max_tx_per_hour THEN "too_frequent"
    ELSE IF Exceeds(amount, thresholds.approval_threshold) \/ thresholds.require_approval
         THEN "requires_approval"
    ELSE "allowed"

\* Mutant of GateDecision: the frequency gate tested before the spending gates.
GateDecisionFrequencyFirst(amount, hourly_spent, daily_spent, hourly_tx_count, thresholds) ==
    IF Exceeds(amount, thresholds.max_single_tx) THEN "exceeds_single_tx_limit"
    ELSE IF hourly_tx_count >= thresholds.max_tx_per_hour THEN "too_frequent"
    ELSE IF Exceeds(hourly_spent + amount, thresholds.hourly_limit) THEN "exceeds_hourly_limit"
    ELSE IF Exceeds(daily_spent + amount, thresholds.daily_limit) THEN "exceeds_daily_limit"
    ELSE IF Exceeds(amount, thresholds.approval_threshold) \/ thresholds.require_approval
         THEN "requires_approval"
    ELSE "allowed"

\* The if-chain of check_ai_transaction: the reason code of the gate that
\* stops the transaction, or "allowed".
GateDecision(amount, hourly_spent, daily_spent, hourly_tx_count, thresholds) ==
    IF Exceeds(amount, thresholds.max_single_tx) THEN "exceeds_single_tx_limit"
    ELSE IF Exceeds(hourly_spent + amount, thresholds.hourly_limit) THEN "exceeds_hourly_limit"
    ELSE IF Exceeds(daily_spent + amount, thresholds.daily_limit) THEN "exceeds_daily_limit"
    ELSE IF hourly_tx_count >= thresholds.max_tx_per_hour THEN "too_frequent"
    ELSE IF Exceeds(amount, thresholds.approval_threshold) \/ thresholds.require_approval
         THEN "requires_approval"
    ELSE "allowed"

\* The message returned with each decision.
GateMessage(decision) ==
    CASE decision = "exceeds_single_tx_limit" -> "exceeds single transaction limit"
      [] decision = "exceeds_hourly_limit" -> "Would exceed hourly spending limit"
      [] decision = "exceeds_daily_limit" -> "Would exceed daily spending limit"
      [] decision = "too_frequent" -> "Too many transactions per hour"
      [] decision = "requires_approval" -> "Transaction requires human approval"
      [] OTHER -> "Transaction within AI spending limits"

\* The row a self-recording check would insert.
HistoryRowOfCheck(req, t) ==
    [timestamp |-> t, from_address |-> req.from_address,
     to_address |-> req.to_address, amount |-> req.amount,
     currency |-> req.currency, approved |-> TRUE,
     approval_id |-> <<>>, notes |-> <<>>]

\* Mutant of CheckAITransaction: an allowed check records the transfer itself.
CheckAITransactionSelfRecords(req) ==
    LET thresholds == GetThresholds(security_level)
        hourly_spent == GetSpending(ai_spending_history, 1, now)
        daily_spent == GetSpending(ai_spending_history, 24, now)
        hourly_tx_count == GetTransactionCountAI(ai_spending_history, 1, now)
        limits_info == [hourly_spent |-> hourly_spent, daily_spent |-> daily_spent,
                        hourly_limit |-> thresholds.hourly_limit,
                        daily_limit |-> thresholds.daily_limit,
                        hourly_tx_count |-> hourly_tx_count,
                        max_tx_per_hour |-> thresholds.max_tx_per_hour,
                        security_level |-> security_level]
        decision == GateDecision(req.amount, hourly_spent, daily_spent,
                                 hourly_tx_count, thresholds)
        approval_id == NewApprovalId(approval_requests)
    IN  /\ IF decision = "allowed"
           THEN /\ approval_requests' = approval_requests
                /\ result' = [op |-> "check_ai_transaction", request |-> req,
                              returned |-> [allowed |-> TRUE,
                                            reason |-> GateMessage(decision),
                                            requires_approval |-> FALSE,
                                            approval_id |-> <<>>,
                                            limits_info |-> limits_info]]
           ELSE /\ Cardinality(DOMAIN approval_requests) < MaxApprovals
                /\ approval_requests' =
                      [i \in DOMAIN approval_requests \cup {approval_id} |->
                          IF i = approval_id THEN ApprovalRow(req, decision, now)
                          ELSE approval_requests[i]]
                /\ result' = [op |-> "check_ai_transaction", request |-> req,
                              returned |-> [allowed |-> FALSE,
                                            reason |-> GateMessage(decision),
                                            requires_approval |-> TRUE,
                                            approval_id |-> <<approval_id>>,
                                            limits_info |-> limits_info]]
        /\ ai_spending_history' =
              IF decision = "allowed"
              THEN Append(ai_spending_history, HistoryRowOfCheck(req, now))
              ELSE ai_spending_history
        /\ UNCHANGED <<ruleVars, transactions, now, envVars, security_level, raceVars>>

CheckAITransaction(req) ==
    LET thresholds == GetThresholds(security_level)
        hourly_spent == GetSpending(ai_spending_history, 1, now)
        daily_spent == GetSpending(ai_spending_history, 24, now)
        hourly_tx_count == GetTransactionCountAI(ai_spending_history, 1, now)
        limits_info == [hourly_spent |-> hourly_spent, daily_spent |-> daily_spent,
                        hourly_limit |-> thresholds.hourly_limit,
                        daily_limit |-> thresholds.daily_limit,
                        hourly_tx_count |-> hourly_tx_count,
                        max_tx_per_hour |-> thresholds.max_tx_per_hour,
                        security_level |-> security_level]
        decision == GateDecision(req.amount, hourly_spent, daily_spent,
                                 hourly_tx_count, thresholds)
        approval_id == NewApprovalId(approval_requests)
    IN  /\ IF decision = "allowed"
           THEN /\ approval_requests' = approval_requests
                /\ result' = [op |-> "check_ai_transaction", request |-> req,
                              returned |-> [allowed |-> TRUE,
                                            reason |-> GateMessage(decision),
                                            requires_approval |-> FALSE,
                                            approval_id |-> <<>>,
                                            limits_info |-> limits_info]]
           ELSE /\ Cardinality(DOMAIN approval_requests) < MaxApprovals
                /\ approval_requests' =
                      [i \in DOMAIN approval_requests \cup {approval_id} |->
                          IF i = approval_id THEN ApprovalRow(req, decision, now)
                          ELSE approval_requests[i]]
                /\ result' = [op |-> "check_ai_transaction", request |-> req,
                              returned |-> [allowed |-> FALSE,
                                            reason |-> GateMessage(decision),
                                            requires_approval |-> TRUE,
                                            approval_id |-> <<approval_id>>,
                                            limits_info |-> limits_info]]
        /\ UNCHANGED <<ruleVars, transactions, now, envVars, security_level,
                       ai_spending_history, raceVars>>

\* The row record_transaction inserts.
HistoryRow(req, approved, t) ==
    [timestamp |-> t,
     from_address |-> req.from_address,
     to_address |-> req.to_address,
     amount |-> req.amount,
     currency |-> req.currency,
     approved |-> approved,
     approval_id |-> <<>>,
     notes |-> <<>>]

RecordTransaction(req, approved) ==
    /\ Len(ai_spending_history) < MaxHistory
    /\ ai_spending_history' = Append(ai_spending_history, HistoryRow(req, approved, now))
    /\ result' = [op |-> "record_transaction", request |-> req, approved |-> approved]
    /\ UNCHANGED <<ruleVars, transactions, now, envVars, security_level,
                   approval_requests, raceVars>>

\* get_approval_requests: the stored rows, newest first, optionally those of
\* one stored status.  filter is <<>> for status=None.
RECURSIVE NewestFirst(_, _)
NewestFirst(table, ids) ==
    IF ids = {} THEN <<>>
    ELSE LET i == CHOOSE i \in ids :
                    \A j \in ids : \/ table[i].timestamp > table[j].timestamp
                                   \/ table[i].timestamp = table[j].timestamp /\ i <= j
         IN  <<[id |-> i] @@ table[i]>> \o NewestFirst(table, ids \ {i})

ListedRows(table, filter) ==
    NewestFirst(table, {i \in DOMAIN table : filter = <<>> \/ table[i].status = filter[1]})

GetApprovalRequests(filter) ==
    /\ result' = [op |-> "get_approval_requests", filter |-> filter,
                  returned |-> ListedRows(approval_requests, filter)]
    /\ UNCHANGED <<ruleVars, transactions, now, envVars, aiVars, raceVars>>

\* Mutants of PendingMatch: the WHERE clause without the status test; the
\* WHERE clause that only refuses a request already in the new status.
PendingMatchAnyStatus(table, approval_id, new_status) ==
    {i \in DOMAIN table : i = approval_id}

PendingMatchNotSame(table, approval_id, new_status) ==
    {i \in DOMAIN table : i = approval_id /\ table[i].status # new_status}

\* The rows UPDATE approval_requests ... WHERE id = ? AND status = 'pending'
\* selects.
PendingMatch(table, approval_id, new_status) ==
    {i \in DOMAIN table : i = approval_id /\ table[i].status = PENDING}

\* The table after the UPDATE of approve_request / reject_request.
DecidedTable(table, approval_id, new_status, approved_by, t) ==
    [i \in DOMAIN table |->
        IF i \in PendingMatch(table, approval_id, new_status)
        THEN [table[i] EXCEPT !.status = new_status,
                              !.approved_at = <<t>>,
                              !.approved_by = <<approved_by>>]
        ELSE table[i]]

\* cursor.rowcount of that UPDATE.
RowCount(table, approval_id, new_status) ==
    Cardinality(PendingMatch(table, approval_id, new_status))

\* Mutant of Returned: "rowcount >= 0".
ReturnedAlways(rowcount) == rowcount >= 0

\* "if cursor.rowcount > 0: return True" else False.
Returned(rowcount) == rowcount > 0

Decide(op, new_status, approval_id, approved_by) ==
    /\ approval_requests' =
          DecidedTable(approval_requests, approval_id, new_status, approved_by, now)
    /\ result' = [op |-> op, approval_id |-> approval_id, approved_by |-> approved_by,
                  returned |-> Returned(RowCount(approval_requests, approval_id, new_status))]
    /\ UNCHANGED <<ruleVars, transactions, now, envVars, security_level,
                   ai_spending_history, raceVars>>

ApproveRequest(approval_id, approved_by) ==
    Decide("approve_request", APPROVED, approval_id, approved_by)

RejectRequest(approval_id, approved_by) ==
    Decide("reject_request", REJECTED, approval_id, approved_by)

\* ------------------------------------- concurrent approve / reject calls

Callers == 1..NumCallers

\* The approved_by argument of caller c.
ActorOf(c) == <<"operator", c>>

IdleFrame == [pc |-> "idle"]

StatusOf(op) == IF op = "approve_request" THEN APPROVED ELSE REJECTED

\* A call is made: "with sqlite3.connect(self.db_path) as conn".
CallDecide(c, op, approval_id) ==
    /\ callers[c].pc = "idle"
    /\ callers' = [callers EXCEPT ![c] =
                      [pc |-> "connected", op |-> op, approval_id |-> approval_id,
                       approved_by |-> ActorOf(c)]]
    /\ result' = NoResult
    /\ UNCHANGED <<ruleVars, transactions, now, envVars, aiVars, db_writer>>

\* cursor.execute(UPDATE ...): waits for the database write lock, then
\* evaluates the WHERE clause and stages the write in its transaction.
ExecuteUpdate(c) ==
    /\ callers[c].pc = "connected"
    /\ db_writer = NoCaller
    /\ db_writer' = {c}
    /\ callers' = [callers EXCEPT ![c] =
                      [pc |-> "executed", op |-> callers[c].op,
                       approval_id |-> callers[c].approval_id,
                       approved_by |-> callers[c].approved_by,
                       approved_at |-> now,
                       rowcount |-> RowCount(approval_requests, callers[c].approval_id,
                                             StatusOf(callers[c].op))]]
    /\ result' = NoResult
    /\ UNCHANGED <<ruleVars, transactions, now, envVars, aiVars>>

\* conn.commit(): the staged write becomes visible and the lock is released.
Commit(c) ==
    /\ callers[c].pc = "executed"
    /\ db_writer = {c}
    /\ db_writer' = NoCaller
    /\ approval_requests' =
          DecidedTable(approval_requests, callers[c].approval_id,
                       StatusOf(callers[c].op), callers[c].approved_by,
                       callers[c].approved_at)
    /\ callers' = [callers EXCEPT ![c].pc = "committed"]
    /\ result' = NoResult
    /\ UNCHANGED <<ruleVars, transactions, now, envVars, security_level,
                   ai_spending_history>>

\* "if cursor.rowcount > 0: return True" / "return False".
ReturnDecide(c) ==
    /\ callers[c].pc = "committed"
    /\ callers' = [callers EXCEPT ![c] =
                      [pc |-> "done"] @@ [returned |-> Returned(callers[c].rowcount)]
                      @@ callers[c]]
    /\ result' = [op |-> callers[c].op, approval_id |-> callers[c].approval_id,
                  approved_by |-> callers[c].approved_by,
                  returned |-> Returned(callers[c].rowcount)]
    /\ UNCHANGED <<ruleVars, transactions, now, envVars, aiVars, db_writer>>

\* -------------------------------------------- AI controller: the models

AIRequest(amount) ==
    [from_address |-> "0xAA", to_address |-> "0xbb", amount |-> amount,
     currency |-> "ETH"]

\* A transfer within every strict limit, and one over max_single_tx.
LifecycleRequests == {AIRequest(5), AIRequest(100)}

GateRequests == {AIRequest(5), AIRequest(20), AIRequest(100)}

Actors == {"admin", "auditor"}

ApprovalIds == 1..(MaxApprovals + 1)

StatusFilters == {<<>>, <<PENDING>>, <<APPROVED>>, <<REJECTED>>, <<EXPIRED>>}

\* Longer than the 24 hours a request lives.
TickSteps == {ApprovalTTL + 1}

InitNoRules ==
    /\ rules = <<>>
    /\ rule_seq = 0
    /\ intended_off = {}
    /\ transactions = <<>>
    /\ current_wallet = "0xAA"
    /\ sandbox = TRUE
    /\ result = NoResult

\* The approval lifecycle, one call at a time.
InitAI ==
    /\ InitNoRules
    /\ now = 0
    /\ security_level = "strict"
    /\ ai_spending_history = <<>>
    /\ approval_requests = <<>>
    /\ callers = <<>>
    /\ db_writer = NoCaller

NextAI ==
    \/ \E req \in LifecycleRequests : CheckAITransaction(req)
    \/ \E id \in ApprovalIds, by \in Actors : ApproveRequest(id, by)
    \/ \E id \in ApprovalIds, by \in Actors : RejectRequest(id, by)
    \/ \E filter \in StatusFilters : GetApprovalRequests(filter)
    \/ \E d \in TickSteps : Tick(d)

SpecAI == InitAI /\ [][NextAI]_vars

\* Concurrent decisions on the request a refused check has stored.
InitRace ==
    /\ InitNoRules
    /\ now = 0
    /\ security_level = "strict"
    /\ ai_spending_history = <<>>
    /\ approval_requests = <<ApprovalRow(AIRequest(100), "exceeds_single_tx_limit", 0)>>
    /\ callers = [c \in Callers |-> IdleFrame]
    /\ db_writer = NoCaller

NextRace ==
    \/ \E c \in Callers, op \in {"approve_request", "reject_request"} :
          CallDecide(c, op, 1)
    \/ \E c \in Callers : ExecuteUpdate(c)
    \/ \E c \in Callers : Commit(c)
    \/ \E c \in Callers : ReturnDecide(c)
    \/ \E d \in TickSteps : Tick(d)

SpecRace == InitRace /\ [][NextRace]_vars

\* The rows record_transaction has stored before a check: at most one approved
\* transfer made two hours ago, then m transfers made within the hour.
StoredHistories(t) ==
    { (IF old THEN <<HistoryRow(AIRequest(200), TRUE, t - 2)>> ELSE <<>>)
        \o [k \in 1..m |-> HistoryRow(AIRequest(40), approved, t)] :
      old \in BOOLEAN, m \in 0..(MaxHistory - 1), approved \in BOOLEAN }
    \cup { [k \in 1..MaxHistory |-> HistoryRow(AIRequest(40), approved, t)] :
           approved \in BOOLEAN }

GateClocks == {2, 30}

\* The gates of check_ai_transaction over stored histories.
InitGates ==
    /\ InitNoRules
    /\ now \in GateClocks
    /\ security_level \in SecurityLevels
    /\ ai_spending_history \in StoredHistories(now)
    /\ approval_requests = <<>>
    /\ callers = <<>>
    /\ db_writer = NoCaller

NextGates ==
    \E req \in GateRequests : CheckAITransaction(req)

SpecGates == InitGates /\ [][NextGates]_vars

LedgerLevels == {"strict", "lockdown"}

\* The spending history as record_transaction builds it, checked as it grows.
InitLedger ==
    /\ InitNoRules
    /\ now = 0
    /\ security_level \in LedgerLevels
    /\ ai_spending_history = <<>>
    /\ approval_requests = <<>>
    /\ callers = <<>>
    /\ db_writer = NoCaller

NextLedger ==
    \/ \E approved \in BOOLEAN : RecordTransaction(AIRequest(40), approved)
    \/ CheckAITransaction(AIRequest(5))

SpecLedger == InitLedger /\ [][NextLedger]_vars

\* Checks and recordings while the clock runs.
InitFigures == InitLedger

NextFigures ==
    \/ NextLedger
    \/ \E d \in TickSteps : Tick(d)

SpecFigures == InitFigures /\ [][NextFigures]_vars

\* Transfers of several senders: recordings of 0.40 from two senders, and
\* checks of 0.05 that differ in sender, recipient or currency.
SenderRecords ==
    {[AIRequest(40) EXCEPT !.from_address = f] : f \in {"0xAA", "0xCC"}}

SenderChecks ==
    {AIRequest(5),
     [AIRequest(5) EXCEPT !.from_address = "0xCC"],
     [AIRequest(5) EXCEPT !.to_address = "0xdd"],
     [AIRequest(5) EXCEPT !.currency = "USDC"]}

InitSenders ==
    /\ InitNoRules
    /\ now = 0
    /\ security_level = "strict"
    /\ ai_spending_history = <<>>
    /\ approval_requests = <<>>
    /\ callers = <<>>
    /\ db_writer = NoCaller

NextSenders ==
    \/ \E req \in SenderRecords : RecordTransaction(req, TRUE)
    \/ \E req \in SenderChecks : CheckAITransaction(req)

SpecSenders == InitSenders /\ [][NextSenders]_vars

\* ======================================================= rule engine claims

\* The verdict of the dry run the last step performed, and what it was run on.
Evaluated == result.op = "evaluate" /\ result.http = 200

EvaluatedContext == BuildContext(transactions, result.transaction, now)

\* Enabled stored rules that fail for the evaluated transaction.
FailingRuleIds ==
    {i \in DOMAIN rules :
        /\ rules[i].enabled
        /\ ~Check(RuleOf(rules, i), result.transaction, EvaluatedContext, now).passed}

\* C1: whenever an enabled rule with action deny fails its check, the verdict
\* of evaluate_transaction has action deny and allowed false, whatever the
\* other rules did.
C1_DenyAbsorbs ==
    Evaluated =>
        ((\E i \in FailingRuleIds : rules[i].action = DENY)
            => result.body.action = DENY /\ result.body.allowed = FALSE)

\* A failed deny rule evaluated before a failed require_approval rule.
C1_Witness ==
    /\ Evaluated
    /\ \E i, j \in FailingRuleIds :
          /\ rules[i].action = DENY
          /\ rules[j].action = REQUIRE_APPROVAL
          /\ rules[i].priority > rules[j].priority
    /\ result.body.action = DENY

\* deny > require_approval > allow over the actions of the failed rules.
MostRestrictive(ids) ==
    IF \E i \in ids : rules[i].action = DENY THEN DENY
    ELSE IF \E i \in ids : rules[i].action = REQUIRE_APPROVAL THEN REQUIRE_APPROVAL
    ELSE ALLOW

Permuted(seq, p) == [k \in 1..Len(seq) |-> seq[p[k]]]

\* C2: the verdict action is the most restrictive action among the failed
\* rules, and evaluating the fetched rules in any other order gives the same
\* action and the same allowed flag.
C2_OrderIndependent ==
    Evaluated =>
        LET fetched == GetRules(rules, TRUE)
        IN  /\ result.body.action = MostRestrictive(FailingRuleIds)
            /\ \A p \in Permutations(1..Len(fetched)) :
                  LET v == EvaluateRules(Permuted(fetched, p), result.transaction,
                                         EvaluatedContext, now)
                  IN  v.action = result.body.action /\ v.allowed = result.body.allowed

\* A failed require_approval rule is met first and a failed deny rule after
\* it, once a priority has been changed.
C2_Witness ==
    /\ Evaluated
    /\ \E i, j \in FailingRuleIds :
          /\ rules[i].action = REQUIRE_APPROVAL
          /\ rules[j].action = DENY
          /\ rules[i].priority > rules[j].priority
          /\ rules[i].priority = 30
    /\ result.body.action = DENY

\* The rule store without the rules whose requested state is disabled.
WithoutDisabled == [i \in DOMAIN rules \ intended_off |-> rules[i]]

\* C3: a rule created with enabled=False, or disabled by update_rule and not
\* enabled again since, does not show in the verdict: action, allowed and
\* failed_rules are those of the evaluation of the store without it.
C3_DisabledIgnored ==
    Evaluated =>
        LET v == EvaluateTransaction(WithoutDisabled, transactions, result.transaction, now)
        IN  /\ result.body.action = v.action
            /\ result.body.allowed = v.allowed
            /\ result.body.failed_rules = v.failed_rules

\* A disabled deny rule that would fail if it were enabled, and the
\* transaction is allowed.
C3_Witness ==
    /\ Evaluated
    /\ \E i \in intended_off :
          /\ rules[i].action = DENY
          /\ ~Check([RuleOf(rules, i) EXCEPT !.enabled = TRUE], result.transaction,
                    EvaluatedContext, now).passed
    /\ result.body.action = ALLOW
    /\ result.body.failed_rules = <<>>

\* C4: in every verdict, allowed is true exactly when the action is allow.
C4_AllowedIffAllow ==
    Evaluated => (result.body.allowed <=> result.body.action = ALLOW)

\* A require_approval verdict, not allowed.
C4_Witness ==
    /\ Evaluated
    /\ result.body.action = REQUIRE_APPROVAL
    /\ result.body.allowed = FALSE

\* The verdict of the rules for the request of the send the step performs.
SentTransaction ==
    [from_address |-> current_wallet,
     to_address |-> ToChecksumAddress(result'.request.to_address),
     value |-> result'.request.value]

\* C5: a send_transaction without skip_rules whose rule verdict is not allow
\* neither signs nor broadcasts nor changes the transactions table, and when a
\* deny rule fails its response status is blocked.
C5_BlockedNotRecorded ==
    [][(result'.op = "send_transaction" /\ ~result'.skip_rules /\ result'.http # 400) =>
          LET v == EvaluateTransaction(rules, transactions, SentTransaction, now)
          IN  /\ v.action # ALLOW =>
                    /\ transactions' = transactions
                    /\ ~result'.wrote.signed
                    /\ ~result'.wrote.broadcast
              /\ v.action = DENY => result'.body.status = "blocked"]_vars

\* Value 100 against the per-transaction limit of 50: blocked, nothing recorded.
C5_Witness ==
    /\ result.op = "send_transaction"
    /\ ~result.skip_rules
    /\ result.request.value = 100
    /\ result.body.status = "blocked"
    /\ result.body.action = DENY
    /\ result.body.failed_rules = <<"Max per transaction">>
    /\ transactions = <<>>

\* ================================================ AI controller claims

\* C6: every approval request is created pending; its stored status changes
\* at most once, from pending to approved by approve_request or from pending
\* to rejected by reject_request; approved and rejected never change again and
\* no request is ever deleted.
C6_StatusLifecycle ==
    [][ /\ DOMAIN approval_requests \subseteq DOMAIN approval_requests'
        /\ \A i \in DOMAIN approval_requests' \ DOMAIN approval_requests :
              approval_requests'[i].status = PENDING
        /\ \A i \in DOMAIN approval_requests :
              approval_requests'[i].status # approval_requests[i].status =>
                 /\ approval_requests[i].status = PENDING
                 /\ \/ /\ approval_requests'[i].status = APPROVED
                       /\ result'.op = "approve_request"
                    \/ /\ approval_requests'[i].status = REJECTED
                       /\ result'.op = "reject_request" ]_vars

\* One request approved, another rejected, and a decision just attempted on
\* one of them.
C6_Witness ==
    /\ \E i, j \in DOMAIN approval_requests :
          /\ approval_requests[i].status = APPROVED
          /\ approval_requests[j].status = REJECTED
    /\ result.op \in {"approve_request", "reject_request"}
    /\ result.approval_id \in DOMAIN approval_requests
    /\ approval_requests[result.approval_id].status # StatusOf(result.op)

\* C7: approve_request and reject_request return true exactly when the request
\* was pending, and then the request carries the new status, the time and the
\* caller; on a decided request or an unknown id they return false and leave
\* every request as it was.
C7_ReturnsTrueIffTransition ==
    [][ result'.op \in {"approve_request", "reject_request"} =>
          LET id == result'.approval_id
              was_pending == /\ id \in DOMAIN approval_requests
                             /\ approval_requests[id].status = PENDING
          IN  /\ result'.returned = was_pending
              /\ was_pending =>
                    approval_requests' =
                       [approval_requests EXCEPT
                          ![id] = [@ EXCEPT !.status = StatusOf(result'.op),
                                            !.approved_at = <<now>>,
                                            !.approved_by = <<result'.approved_by>>]]
              /\ ~was_pending => approval_requests' = approval_requests ]_vars

\* A rejection attempted by another actor, later, on an approved request,
\* while another request is still pending.
C7_Witness ==
       /\ result.op = "reject_request"
       /\ ~result.returned
       /\ result.approval_id \in DOMAIN approval_requests
       /\ approval_requests[result.approval_id].status = APPROVED
       /\ approval_requests[result.approval_id].approved_by # <<result.approved_by>>
       /\ approval_requests[result.approval_id].approved_at # <<now>>
       /\ \E j \in DOMAIN approval_requests : approval_requests[j].status = PENDING

\* The calls made on request i, and those that returned true.
CallsOn(i) == {c \in Callers : callers[c].pc # "idle" /\ callers[c].approval_id = i}

Winners(i) == {c \in CallsOn(i) : callers[c].pc = "done" /\ callers[c].returned}

\* C8: of the concurrent approve_request / reject_request calls on one pending
\* request, at most one returns true at any time; once all have returned,
\* exactly one returned true, and the stored status, approved_at and
\* approved_by are those of that call.
C8_ExactlyOneWinner ==
    \A i \in DOMAIN approval_requests :
       /\ Cardinality(Winners(i)) <= 1
       /\ \A w \in Winners(i) :
             /\ approval_requests[i].status = StatusOf(callers[w].op)
             /\ approval_requests[i].approved_at = <<callers[w].approved_at>>
             /\ approval_requests[i].approved_by = <<callers[w].approved_by>>
       /\ (CallsOn(i) # {} /\ \A c \in CallsOn(i) : callers[c].pc = "done") =>
             /\ Cardinality(Winners(i)) = 1
             /\ \A c \in CallsOn(i) \ Winners(i) : ~callers[c].returned

\* An approval and a rejection of the same request were both in flight, both
\* have returned, at different times.
C8_Witness ==
    \E c, d \in Callers :
       /\ callers[c].pc = "done" /\ callers[d].pc = "done"
       /\ callers[c].op = "approve_request" /\ callers[d].op = "reject_request"
       /\ callers[c].approval_id = callers[d].approval_id
       /\ callers[c].approved_at # callers[d].approved_at

\* C9: a request whose expires_at is in the past and whose stored status is
\* still pending is listed by get_approval_requests with status expired,
\* never with status pending.
C9_ExpiredReported ==
    result.op = "get_approval_requests" =>
       \A k \in 1..Len(result.returned) :
          LET row == result.returned[k]
          IN  (row.expires_at < now /\ approval_requests[row.id].status = PENDING)
                 => row.status = EXPIRED

\* The five gates of the claim, by number, and the reason code of each.
GateFails(g, amount) ==
    LET thresholds == GetThresholds(security_level)
        hourly_spent == GetSpending(ai_spending_history, 1, now)
        daily_spent == GetSpending(ai_spending_history, 24, now)
        hourly_tx_count == GetTransactionCountAI(ai_spending_history, 1, now)
    IN  CASE g = 1 -> Exceeds(amount, thresholds.max_single_tx)
          [] g = 2 -> Exceeds(hourly_spent + amount, thresholds.hourly_limit)
          [] g = 3 -> Exceeds(daily_spent + amount, thresholds.daily_limit)
          [] g = 4 -> hourly_tx_count >= thresholds.max_tx_per_hour
          [] g = 5 -> \/ Exceeds(amount, thresholds.approval_threshold)
                      \/ thresholds.require_approval

FailingGates(amount) == {g \in 1..5 : GateFails(g, amount)}

GateReason(g) ==
    <<"exceeds_single_tx_limit", "exceeds_hourly_limit", "exceeds_daily_limit",
      "too_frequent", "requires_approval">>[g]

LowestGate(gates) == CHOOSE g \in gates : \A h \in gates : g <= h

\* C10: check_ai_transaction allows the transfer iff none of the five gates
\* fails; when some fail, the message and the reason of the approval request
\* it creates are those of the lowest-numbered failing gate.
C10_LowestFailingGate ==
    result.op = "check_ai_transaction" =>
       LET failing == FailingGates(result.request.amount)
           returned == result.returned
       IN  /\ returned.allowed <=> failing = {}
           /\ failing = {} => returned.approval_id = <<>>
           /\ failing # {} =>
                 /\ returned.reason = GateMessage(GateReason(LowestGate(failing)))
                 /\ returned.approval_id # <<>>
                 /\ approval_requests[returned.approval_id[1]].reason =
                       GateReason(LowestGate(failing))
                 /\ approval_requests[returned.approval_id[1]].amount =
                       result.request.amount

\* Gates 2, 3, 4 and 5 fail together and the hourly limit is the one reported.
C10_Witness ==
    /\ result.op = "check_ai_transaction"
    /\ FailingGates(result.request.amount) = {2, 3, 4, 5}
    /\ approval_requests[result.returned.approval_id[1]].reason = "exceeds_hourly_limit"

GateReasons == {GateReason(g) : g \in 1..5}

\* C11: a check_ai_transaction call that returns allowed leaves the approval
\* requests as they were and returns no approval id; a call that returns not
\* allowed adds exactly one request, stored under the returned approval id,
\* pending, carrying the code of the gate whose message is returned, and
\* expiring 24 hours after its timestamp.
C11_RequestIffDenied ==
    [][result'.op = "check_ai_transaction" =>
          LET returned == result'.returned
          IN  IF returned.allowed
              THEN /\ approval_requests' = approval_requests
                   /\ returned.approval_id = <<>>
              ELSE /\ Len(returned.approval_id) = 1
                   /\ returned.approval_id[1] \notin DOMAIN approval_requests
                   /\ DOMAIN approval_requests' =
                         DOMAIN approval_requests \cup {returned.approval_id[1]}
                   /\ \A i \in DOMAIN approval_requests :
                         approval_requests'[i] = approval_requests[i]
                   /\ LET row == approval_requests'[returned.approval_id[1]]
                      IN  /\ row.status = PENDING
                          /\ row.reason \in GateReasons
                          /\ GateMessage(row.reason) = returned.reason
                          /\ row.timestamp = now
                          /\ row.expires_at = row.timestamp + ApprovalTTL
                          /\ row.amount = result'.request.amount]_vars

\* A refused check has added a second request, a day after the first.
C11_Witness ==
    /\ result.op = "check_ai_transaction"
    /\ ~result.returned.allowed
    /\ result.returned.approval_id = <<2>>
    /\ approval_requests[2].status = PENDING
    /\ approval_requests[2].expires_at = now + ApprovalTTL
    /\ approval_requests[2].timestamp > approval_requests[1].timestamp

\* The stored records with approved = true.
ApprovedRecords(history) ==
    LET IsApproved(row) == row.approved
    IN  SelectSeq(history, IsApproved)

\* C12: the hourly_spent, daily_spent and hourly_tx_count of a check are
\* computed from the records stored with approved = true only, and so is the
\* outcome of the check: records stored with approved = false change neither.
C12_ApprovedOnly ==
    result.op = "check_ai_transaction" =>
       LET approved_only == ApprovedRecords(ai_spending_history)
           hourly_spent == GetSpending(approved_only, 1, now)
           daily_spent == GetSpending(approved_only, 24, now)
           hourly_tx_count == GetTransactionCountAI(approved_only, 1, now)
           info == result.returned.limits_info
       IN  /\ info.hourly_spent = hourly_spent
           /\ info.daily_spent = daily_spent
           /\ info.hourly_tx_count = hourly_tx_count
           /\ result.returned.reason =
                 GateMessage(GateDecision(result.request.amount, hourly_spent,
                                          daily_spent, hourly_tx_count,
                                          GetThresholds(security_level)))

\* The spending the daily window holds for the loaded wallet, as the engine
\* itself computes it.
WindowTotal == GetPeriodSpending(transactions, current_wallet, 1, now)

EnabledRuleIds == {i \in DOMAIN rules : rules[i].enabled}

\* C14: a verdict with rules_checked = n comes with exactly n new Rule
\* Evaluation Records, one per enabled rule, each carrying that rule's id and
\* name, the passed flag and the reason of its check, and tx_hash 'pending'
\* when the transaction has no hash; the failed ones are the failed_rules.
C14_EveryCheckLogged ==
    Evaluated =>
       LET rows == result.wrote.rule_evaluations
       IN  /\ Len(rows) = result.body.rules_checked
           /\ Len(rows) = Cardinality(EnabledRuleIds)
           /\ {rows[k].rule_id : k \in 1..Len(rows)} = EnabledRuleIds
           /\ \A k \in 1..Len(rows) :
                 LET rule == RuleOf(rules, rows[k].rule_id)
                     chk == Check(rule, result.transaction, EvaluatedContext, now)
                 IN  /\ rows[k].rule_name = rule.rule_name
                     /\ rows[k].passed = chk.passed
                     /\ rows[k].reason = chk.reason
                     /\ rows[k].tx_hash = "pending"
           /\ Cardinality({k \in 1..Len(rows) : ~rows[k].passed}) =
                 Len(result.body.failed_rules)
           /\ Cardinality({k \in 1..Len(rows) : rows[k].passed}) =
                 result.body.rules_passed

\* Two enabled rules were checked, one passed and one failed, and both checks
\* were written.
C14_Witness ==
    /\ Evaluated
    /\ result.body.rules_checked = 2
    /\ Len(result.wrote.rule_evaluations) = 2
    /\ \E j, k \in 1..2 : /\ result.wrote.rule_evaluations[j].passed
                          /\ ~result.wrote.rule_evaluations[k].passed

\* The last step was a call of evaluate_transaction that returned a verdict,
\* and so was the call before it, for the same transaction, with no change to
\* the rules or the history in between.
EvaluatedTwice ==
    /\ result.op = "evaluate_transaction"
    /\ ~result.raised
    /\ result.prior # <<>>

SameVerdict ==
    /\ result.returned.action = result.prior[1].action
    /\ result.returned.risk_level = result.prior[1].risk_level

InvalidRow(row) ==
    \/ row.rule_type \notin RuleType
    \/ row.action \notin RuleAction
    \/ CheckRaises([rule_type |-> row.rule_type, parameters |-> row.parameters,
                    enabled |-> TRUE])

\* C16: evaluation never fails partially: with an enabled stored rule of
\* invalid shape, kind or action, evaluate_transaction still returns a
\* verdict, in which that rule is among the failed rules and every enabled
\* rule has been checked.
C16_NeverAborts ==
    result.op = "evaluate" =>
       /\ result.http = 200
       /\ result.body.rules_checked = Cardinality(EnabledRuleIds)
       /\ \A i \in EnabledRuleIds :
             InvalidRow(rules[i]) =>
                \E k \in 1..Len(result.body.failed_rules) :
                   result.body.failed_rules[k] = rules[i].rule_name

\* C17: create_rule rejects a rule of unknown kind or malformed parameters,
\* so every stored rule has one of the six kinds and parameters its check can
\* read.
C17_StoredRulesValid ==
    \A i \in DOMAIN rules :
       /\ rules[i].rule_type \in RuleType
       /\ ~InvalidRow(rules[i])

UpdatableFields == {"enabled", "parameters", "priority"}

FixedFields == {"rule_type", "rule_name", "action", "created_at"}

\* C19: update_rule returns false and changes nothing, updated_at included,
\* when the id is absent or no field is supplied; otherwise it returns true,
\* sets the supplied fields and updated_at of that rule, and changes neither
\* its other fields nor any other rule.
C19_UpdateOnlySupplied ==
    [][\A id \in RuleIds, upd \in UpdateInputs :
          UpdateRule(id, upd) =>
             IF id \notin DOMAIN rules \/ DOMAIN upd = {}
             THEN /\ result'.returned = FALSE
                  /\ rules' = rules
             ELSE /\ result'.returned = TRUE
                  /\ DOMAIN rules' = DOMAIN rules
                  /\ \A j \in DOMAIN rules \ {id} : rules'[j] = rules[j]
                  /\ rules'[id].updated_at = now
                  /\ \A f \in UpdatableFields :
                        rules'[id][f] = IF f \in DOMAIN upd THEN upd[f] ELSE rules[id][f]
                  /\ \A f \in FixedFields : rules'[id][f] = rules[id][f]]_vars

\* An update of rule 2 alone has returned true: rule 2 carries the new
\* parameters and priority and the time of the update, rule 1 is as created.
C19_Witness ==
    /\ result.op = "update_rule" /\ result.returned /\ result.rule_id = 2
    /\ rules[2].parameters = [threshold |-> 60]
    /\ rules[2].priority = 30
    /\ rules[2].enabled
    /\ rules[2].updated_at = now /\ rules[2].created_at < now
    /\ rules[1] = RuleRow(PerTransactionCap @@ [enabled |-> TRUE], 0)

\* Ids the store has given out and no longer holds: AUTOINCREMENT never
\* gives an id twice.
DeletedRuleIds == (1..rule_seq) \ DOMAIN rules

\* C20: once delete_rule(id) has returned true the rule is gone from the
\* store, and an evaluation that starts afterwards neither checks nor counts
\* it: none of its audit rows carries a deleted id, and rules_checked counts
\* the stored enabled rules only.
C20_DeletedNeverApplied ==
    /\ (result.op = "delete_rule" /\ result.returned)
          => result.rule_id \notin DOMAIN rules
    /\ Evaluated =>
          /\ \A k \in 1..Len(result.wrote.rule_evaluations) :
                result.wrote.rule_evaluations[k].rule_id \notin DeletedRuleIds
          /\ result.body.rules_checked = Cardinality(EnabledRuleIds)

\* A rule has been deleted, and an evaluation after it checked the one
\* enabled rule that is left.
C20_Witness ==
    /\ Evaluated
    /\ DeletedRuleIds # {}
    /\ result.body.rules_checked = 1
    /\ Len(result.wrote.rule_evaluations) = 1

\* ------------------------------------- controller and routes, continued

\* What check_ai_transaction would decide for a transfer of the amount, from
\* the stored history, the clock and the active profile.
ControllerDecision(amount) ==
    GateDecision(amount,
                 GetSpending(ai_spending_history, 1, now),
                 GetSpending(ai_spending_history, 24, now),
                 GetTransactionCountAI(ai_spending_history, 1, now),
                 GetThresholds(security_level))

\* C21: a transfer that send_transaction executes is one the Spending Limit
\* Controller allows: under the strict profile a transfer of 1.00, above
\* max_single_tx 0.50, is never sent.
C21_ControllerGuardsSends ==
    (/\ result.op = "send_transaction"
     /\ result.http = 200
     /\ result.body.status \in {"confirmed", "SUBMITTED"})
       => ControllerDecision(result.request.value) = "allowed"

\* C22: a send_transaction without skip_rules answers by the verdict of the
\* rules: status blocked when a deny rule fails, status requires_approval (not
\* blocked) when no deny rule fails and a require_approval rule does, and the
\* transfer is executed when every rule passes.
C22_ThreeVerdicts ==
    [][(result'.op = "send_transaction" /\ ~result'.skip_rules /\ result'.http = 200) =>
          LET v == EvaluateTransaction(rules, transactions, SentTransaction, now)
          IN  /\ v.action = DENY => result'.body.status = "blocked"
              /\ v.action = REQUIRE_APPROVAL => result'.body.status = "requires_approval"
              /\ v.action = ALLOW => result'.body.status \in {"confirmed", "SUBMITTED"}]_vars

\* Enabled stored rules with action allow whose check passes for the evaluated
\* transaction.
ApplyingAllowRuleIds ==
    {i \in DOMAIN rules :
        /\ rules[i].enabled
        /\ rules[i].action = ALLOW
        /\ Check(RuleOf(rules, i), result.transaction, EvaluatedContext, now).passed}

\* C23: a rule with action allow overrides the other rules: when an enabled
\* allow rule applies to the evaluated transaction the verdict is allow, even
\* if a rule with action deny or require_approval fails.
C23_AllowOverrides ==
    (Evaluated /\ ApplyingAllowRuleIds # {}) =>
       /\ result.body.action = ALLOW
       /\ result.body.allowed

\* The sender's confirmed-or-pending recorded values of the last 24 hours: the
\* rows recorded after now - 24h.
SpentLastDay ==
    LET Keep(row) == /\ row.from_address = current_wallet
                     /\ row.timestamp > now - HoursPerDay
                     /\ row.status \in {"confirmed", "pending"}
    IN  SumValues(SelectSeq(transactions, Keep))

\* C24: a period spending_limit rule fails iff the sender's recorded spending
\* in the window plus the value exceeds the amount; so when the
\* evaluate-and-record steps of the requests run one at a time under a daily
\* deny limit, the sender's confirmed-or-pending values recorded inside the
\* daily window never sum to more than the limit.
C24_DailyWindowWithinLimit ==
    (\A c \in DOMAIN callers : callers[c].pc = "returned" => ~callers[c].overlapped)
       => SpentLastDay <= DailyCap.parameters.amount

\* ------------------------------------------------------ risk scorer claims

\* The levels in increasing order.
RiskRank(level) ==
    CASE level = "low" -> 0
      [] level = "medium" -> 1
      [] level = "high" -> 2
      [] level = "critical" -> 3

\* The score as the claim states it: 25 per failed rule, an amount bonus of 0
\* up to 0.1, 5 up to 1, 15 up to 10 and 30 above, and a frequency bonus of 0
\* up to 20 transactions a day, 10 up to 50 and 20 above.
StatedScore(value, failed, daily_count) ==
    25 * failed
    + (IF value <= 10 THEN 0 ELSE IF value <= 100 THEN 5 ELSE IF value <= 1000 THEN 15 ELSE 30)
    + (IF daily_count <= 20 THEN 0 ELSE IF daily_count <= 50 THEN 10 ELSE 20)

StatedLevel(score) ==
    IF score < 25 THEN "low"
    ELSE IF score < 50 THEN "medium"
    ELSE IF score < 75 THEN "high" ELSE "critical"

\* C25: the risk level is low below 25, medium below 50, high below 75 and
\* critical from 75 of the stated score; so for a fixed number of failed rules
\* and a fixed daily transaction count it never decreases as the value grows.
C25_RiskLevelByScore ==
    result.op = "calculate_risk" =>
       /\ result.returned =
             StatedLevel(StatedScore(result.transaction.value, Len(result.failed_rules),
                                     result.context.daily_transaction_count))
       /\ \A v \in RiskValues :
             v >= result.transaction.value =>
                RiskRank(CalculateRisk([result.transaction EXCEPT !.value = v],
                                       result.context, result.failed_rules))
                   >= RiskRank(result.returned)

\* One failed rule, 21 transactions today, value 10.01: score 25 + 30 + 10.
C25_Witness ==
    /\ result.op = "calculate_risk"
    /\ Len(result.failed_rules) = 1
    /\ result.context.daily_transaction_count = 21
    /\ result.transaction.value = 1001
    /\ result.returned = "high"

\* ------------------------------------------ AI controller claims, continued

\* The window figures of check_ai_transaction over a history at clock t.
Figures(history, t) ==
    [hourly_spent |-> GetSpending(history, 1, t),
     daily_spent |-> GetSpending(history, 24, t),
     hourly_tx_count |-> GetTransactionCountAI(history, 1, t)]

LaterTransactions ==
    {[from_address |-> from_address, to_address |-> req.to_address, value |-> req.value] :
        from_address \in {"0xAA", "0xBB"}, req \in EvaluateRequests}

\* C27: an evaluation through POST /rules/evaluate writes its evaluation only:
\* it leaves the rule store and the transaction history as they are, so the
\* spending totals and transaction counts of every later evaluation are those
\* it would have had without the dry run.
C27_DryRunKeepsHistory ==
    [][result'.op = "evaluate" =>
          /\ rules' = rules
          /\ rule_seq' = rule_seq
          /\ transactions' = transactions
          /\ \A transaction \in LaterTransactions :
                BuildContext(transactions', transaction, now') =
                   BuildContext(transactions, transaction, now)]_vars

\* A dry run of 1.00 over a history of 0.60 was refused by the daily cap and
\* logged, and the history still totals 0.60.
C27_Witness ==
    /\ Evaluated
    /\ result.transaction.value = 100
    /\ result.body.failed_rules = <<"Daily limit">>
    /\ Len(result.wrote.rule_evaluations) = 1
    /\ Len(transactions) = 1
    /\ EvaluatedContext.daily_spending = 60
    /\ EvaluatedContext.daily_transaction_count = 1

\* C28: a request still pending when its expires_at (creation + 24h) has
\* passed can no longer be decided: approve_request and reject_request on it
\* return false and its status stays as it was.
C28_ExpiredNotDecided ==
    [][\A id \in DOMAIN approval_requests :
          (/\ result'.op \in {"approve_request", "reject_request"}
           /\ result'.approval_id = id
           /\ approval_requests[id].status = PENDING
           /\ approval_requests[id].expires_at < now)
             => /\ ~result'.returned
                /\ approval_requests'[id].status = PENDING]_vars

\* The stored records of the last hours, of every sender.
RecordsOfAllSenders(hours) ==
    SelectSeq(ai_spending_history, LAMBDA row : row.timestamp > now - hours)

ApprovedOfAllSenders(hours) ==
    SelectSeq(RecordsOfAllSenders(hours), LAMBDA row : row.approved)

\* C29: the figures of a check are sums over the records of all senders, and
\* its outcome is the one the gates give for the amount, the profile and
\* those figures: the sender, the recipient and the currency of the call have
\* no part in it.
C29_FiguresAreGlobal ==
    result.op = "check_ai_transaction" =>
       LET info == result.returned.limits_info
           decision == GateDecision(result.request.amount,
                                    SumAmounts(ApprovedOfAllSenders(1)),
                                    SumAmounts(ApprovedOfAllSenders(24)),
                                    Len(RecordsOfAllSenders(1)),
                                    GetThresholds(security_level))
       IN  /\ info.hourly_spent = SumAmounts(ApprovedOfAllSenders(1))
           /\ info.daily_spent = SumAmounts(ApprovedOfAllSenders(24))
           /\ info.hourly_tx_count = Len(RecordsOfAllSenders(1))
           /\ result.returned.allowed = (decision = "allowed")
           /\ result.returned.requires_approval = (decision # "allowed")

\* A check by a sender with no record of its own is refused at the hourly
\* limit, which the records of another sender have used up.
C29_Witness ==
    /\ result.op = "check_ai_transaction"
    /\ result.request.from_address = "0xCC"
    /\ \A k \in 1..Len(ai_spending_history) :
          ai_spending_history[k].from_address = "0xAA"
    /\ result.returned.limits_info.hourly_spent = 200
    /\ ~result.returned.allowed
    /\ result.returned.reason = "Would exceed hourly spending limit"

\* The stored requests opened for the transaction of a check.
RequestsFor(req) ==
    {id \in DOMAIN approval_requests :
        /\ approval_requests[id].from_address = req.from_address
        /\ approval_requests[id].to_address = req.to_address
        /\ approval_requests[id].amount = req.amount
        /\ approval_requests[id].currency = req.currency}

\* C30: a check never reads the approval requests: its outcome is the one the
\* gates give for the amount and the history, and when requests for the same
\* transaction are stored, pending, approved or rejected, it is refused again
\* at their gate and stores one more pending request.
C30_ApprovalsDoNotUnlock ==
    [][result'.op = "check_ai_transaction" =>
          LET req == result'.request
              returned == result'.returned
          IN  /\ returned.allowed = (ControllerDecision(req.amount) = "allowed")
              /\ \A id \in RequestsFor(req) :
                    /\ ~returned.allowed
                    /\ Cardinality(DOMAIN approval_requests') =
                          Cardinality(DOMAIN approval_requests) + 1
                    /\ approval_requests'[returned.approval_id[1]].status = PENDING
                    /\ approval_requests'[returned.approval_id[1]].reason =
                          approval_requests[id].reason
                    /\ approval_requests'[id] = approval_requests[id]]_vars

\* The request of the first refusal was approved; the same transaction was
\* checked again, refused at the same gate, and has a second, pending request.
C30_Witness ==
    /\ result.op = "check_ai_transaction"
    /\ ~result.returned.allowed
    /\ result.returned.approval_id = <<2>>
    /\ approval_requests[1].status = APPROVED
    /\ approval_requests[2].status = PENDING
    /\ approval_requests[1].amount = approval_requests[2].amount
    /\ approval_requests[1].reason = approval_requests[2].reason

====
